---- MODULE Spec2Model ----
(***************************************************************************)
(* Cache-coloring subsystem of jailhouse-rt: color arithmetic              *)
(* (include/jailhouse/coloring.h), the driver-side validator               *)
(* (driver/coloring.c) and the hypervisor-side fragment planner, region    *)
(* operator and root-cell recoloring engine (hypervisor/arch/arm64/        *)
(* coloring.c).  Addresses are byte addresses unless a name says Frame.    *)
(***************************************************************************)
EXTENDS Integers, Sequences, FiniteSets, TLC

VARIABLES
    nc_pc,      \* next_colored harness: "call" before, "done" after the call
    nc_in,      \* [way, phys, col_val]: the inputs of the call
    nc_out,     \* the call's outcome: [ret, carries, diverged]
    pl_pc,      \* fragment planner harness: "plan" before, "done" after
    pl_way,     \* cache.way_size = cache.fragment_unit_offset
    pl_oob,     \* the value ranges_in_mask reads one past the end of mask[]
    pl_regs,    \* the colored regions handed to the planner
    pl_frags,   \* per region, the planner's outcome: [frags, diverged]
    hv_cfg,     \* [way, ntp, oob, regs, cell, rootram, level, smmu_map_f,
                \* smmu_unmap_f]: geometry, NUM_TEMPORARY_PAGES, the cell's colored
                \* regions, the cell, the root cell's RAM pages, cache.level and
                \* whether col_ops.smmu_map_f / col_ops.smmu_unmap_f are set
    hv_pc,      \* position in coloring_cell_init / coloring_cell_exit / the hypercall
    hv_n,       \* index of the colored region the handler is at
    hv_err,     \* the error the handler returned ("0" for none)
    hv_tbl,     \* page tables: [hv, root, cell, smmu], each a set of <<virt, phys>>
                \* pages; smmu is the cell's SMMU table (cell->arch.iomm)
    hv_mem,     \* physical memory: page address -> content
    hv_log,     \* collaborator calls and page copies made so far, in order
    hv_snap,    \* page tables and memory as they were when the handler started
    drv_pc,     \* driver: "load" before jailhouse_coloring_init, "ready", then "done"
    drv_in,     \* [way, root, id, regs]: llc_way_size, the root cell's regions,
                \* cell->id and the cell's regions as the configuration gives them
    drv_mask,   \* coloring_mask
    drv_root,   \* root_colored_memory: << >> for NULL, else << the root cell's region >>
    drv_regs,   \* cell->memory_regions
    drv_desc,   \* the memory regions of cell_desc
    drv_count,  \* count when jailhouse_coloring_cell_setup left its loop
    drv_ret,    \* what jailhouse_coloring_cell_setup returned ("0" for none)
    rg_pc,      \* range extractor harness: "call" before ranges_in_mask, "done" after
    rg_mask,    \* the bool array handed to ranges_in_mask (mask[k] is rg_mask[k + 1])
    rg_oob,     \* the value the call reads at mask[size], one past the array
    rg_values   \* the int array the call wrote (values[k] is rg_values[k + 1])

ncVars == <<nc_pc, nc_in, nc_out>>

plVars == <<pl_pc, pl_way, pl_oob, pl_regs, pl_frags>>

hvVars == <<hv_cfg, hv_pc, hv_n, hv_err, hv_tbl, hv_mem, hv_log, hv_snap>>

drvVars == <<drv_pc, drv_in, drv_mask, drv_root, drv_regs, drv_desc, drv_count,
             drv_ret>>

rgVars == <<rg_pc, rg_mask, rg_oob, rg_values>>

vars == <<nc_pc, nc_in, nc_out, pl_pc, pl_way, pl_oob, pl_regs, pl_frags,
          hv_cfg, hv_pc, hv_n, hv_err, hv_tbl, hv_mem, hv_log, hv_snap,
          drv_pc, drv_in, drv_mask, drv_root, drv_regs, drv_desc, drv_count,
          drv_ret, rg_pc, rg_mask, rg_oob, rg_values>>

(***************************************************************************)
(* Bit arithmetic on naturals (the code's &, |, <<, >> on unsigned words). *)
(* All values of the model stay far below 2^31, so no C operand wraps.     *)
(***************************************************************************)
Pow2(n) == 2 ^ n

BitAt(x, i) == (x \div Pow2(i)) % 2

RECURSIVE BitAnd(_, _)
BitAnd(a, b) ==
    IF a = 0 \/ b = 0 THEN 0
    ELSE (a % 2) * (b % 2) + 2 * BitAnd(a \div 2, b \div 2)

BitOr(a, b) == a + b - BitAnd(a, b)

Min(a, b) == IF a < b THEN a ELSE b

HV_PAGE_SHIFT == 12

HV_PAGE_SIZE == Pow2(HV_PAGE_SHIFT)

(***************************************************************************)
(* log_two: i = 1, j = 1; while (i < n) { j++; i = 1 << j; } return j.     *)
(* The first iteration jumps from i = 1 to i = 4, so log_two(1) = 1,       *)
(* log_two(2) = 2 and, for n >= 3, the result is the ceiling of log2(n).   *)
(***************************************************************************)
RECURSIVE log_two_loop(_, _, _)
log_two_loop(i, j, n) ==
    IF i < n THEN log_two_loop(Pow2(j + 1), j + 1, n) ELSE j

log_two(n) == log_two_loop(1, 1, n)

(***************************************************************************)
(* calculate_addr_col_mask: the bits low_idx .. high_idx, one at a time.   *)
(***************************************************************************)
RECURSIVE addr_col_mask_loop(_, _, _)
addr_col_mask_loop(i, high_idx, acc) ==
    IF i <= high_idx
    THEN addr_col_mask_loop(i + 1, high_idx, BitOr(acc, Pow2(i)))
    ELSE acc

\* A derivation that also sets the bit at log_two(llc_way_size).
calculate_addr_col_mask_inclusive(llc_way_size) ==
    addr_col_mask_loop(log_two(HV_PAGE_SIZE), log_two(llc_way_size), 0)

calculate_addr_col_mask(llc_way_size) ==
    LET low_idx  == log_two(HV_PAGE_SIZE)
        high_idx == log_two(llc_way_size) - 1
    IN  addr_col_mask_loop(low_idx, high_idx, 0)

(***************************************************************************)
(* next_colored.  The outcome is a record: ret is the returned address,    *)
(* carries counts the executions of "retval += 1UL << high_idx".  After a  *)
(* carry the loop is at (cur_col_bit, cur_col_mask_conf) = (1, 0); if it   *)
(* comes to the carry branch again, it has scanned every bit <= col_val    *)
(* from that same loop state without a hit and will do so for ever: the C  *)
(* loop never exits.  That outcome is reported as diverged = TRUE.         *)
(***************************************************************************)
RECURSIVE cur_color_loop(_, _, _, _, _)
cur_color_loop(k, i, high_idx, retval, conf) ==
    IF i < high_idx
    THEN cur_color_loop(k + 1, i + 1, high_idx, retval,
                        IF BitAt(retval, i) = 1 THEN BitOr(conf, Pow2(k)) ELSE conf)
    ELSE conf

sanitize_col_val(col_val, addr_col_mask, high_idx) ==
    LET max_col_val == Pow2((addr_col_mask \div Pow2(HV_PAGE_SHIFT)) + 1) - 1
    IN  IF col_val > max_col_val
        THEN BitAnd(col_val, Pow2(high_idx) - 1)
        ELSE col_val

RECURSIVE next_colored_loop(_, _, _, _, _, _)
next_colored_loop(cur_col_bit, conf, retval, col_val, high_idx, carries) ==
    IF BitAnd(cur_col_bit, col_val) # 0
    THEN [ret      |-> BitOr(retval - (retval % Pow2(high_idx)),
                             conf * Pow2(HV_PAGE_SHIFT)),
          carries  |-> carries,
          diverged |-> FALSE]
    ELSE IF cur_col_bit > col_val
         THEN IF carries >= 1
              THEN [ret |-> retval + Pow2(high_idx), carries |-> carries + 1,
                    diverged |-> TRUE]
              ELSE next_colored_loop(1, 0, retval + Pow2(high_idx), col_val,
                                     high_idx, carries + 1)
         ELSE next_colored_loop(2 * cur_col_bit, conf + 1, retval, col_val,
                                high_idx, carries)

next_colored(phys, addr_col_mask, col_val) ==
    IF col_val = 0
    THEN [ret |-> phys, carries |-> 0, diverged |-> FALSE]
    ELSE LET high_idx == log_two(addr_col_mask)
             low_idx  == HV_PAGE_SHIFT
             cv       == sanitize_col_val(col_val, addr_col_mask, high_idx)
             conf     == cur_color_loop(0, low_idx, high_idx, phys, 0)
         IN  next_colored_loop(Pow2(conf), conf, phys, cv, high_idx, 0)

(***************************************************************************)
(* LLC geometries: way sizes of 2, 4, 8 and 16 pages.                      *)
(***************************************************************************)
WayShifts == 13 .. 16

WaySizes == { Pow2(s) : s \in WayShifts }

ColorCount(way) == way \div HV_PAGE_SIZE

\* The color index of a page as the specification defines it ("Color of an
\* address"): (p & color_mask) >> page_shift.  The claims are stated against
\* it; what next_colored computes from an address is cur_color_loop.
ColorIndex(p, way) ==
    BitAnd(p, calculate_addr_col_mask(way)) \div HV_PAGE_SIZE

\* Bitmaps tried on the 16-color geometry (the smaller ones are exhaustive).
Samples16 ==
    { 1, 2, 240, 3840, 61440, 32768, 43690, 50115, 65280, 65535, 4080, 32769 }

\* Values beyond the 16-bit range, for the sanitizing path.
Wide16 == { 65536, 65537, 196608, 65536 + 3840, 131072 + 32768 }

\* How many bit positions above color_count the bitmaps of a small geometry span.
ExtraBits == 2

ColVals(way) ==
    IF ColorCount(way) = 16
    THEN Samples16 \cup Wide16
    ELSE 1 .. (Pow2(ColorCount(way) + ExtraBits) - 1)

\* Start addresses: every page of the first MaxStrides strides.
MaxStrides == 2

PhysPages(way) ==
    { f * HV_PAGE_SIZE : f \in 0 .. (MaxStrides * ColorCount(way) - 1) }

NCInputs ==
    UNION { { [way |-> w, phys |-> p, col_val |-> c] :
                p \in PhysPages(w), c \in ColVals(w) } : w \in WaySizes }

NCIdle ==
    /\ nc_pc = "idle"
    /\ nc_in = [way |-> 0, phys |-> 0, col_val |-> 0]
    /\ nc_out = [ret |-> 0, carries |-> 0, diverged |-> FALSE]

PLIdle ==
    /\ pl_pc = "idle"
    /\ pl_way = 0
    /\ pl_oob = FALSE
    /\ pl_regs = << >>
    /\ pl_frags = << >>

HVIdle ==
    /\ hv_cfg = [way |-> 0, ntp |-> 0, oob |-> FALSE, regs |-> << >>,
                 cell |-> "none", rootram |-> {}, level |-> 0,
                 smmu_map_f |-> FALSE, smmu_unmap_f |-> FALSE]
    /\ hv_pc = "idle"
    /\ hv_n = 0
    /\ hv_err = "0"
    /\ hv_tbl = [hv |-> {}, root |-> {}, cell |-> {}, smmu |-> {}]
    /\ hv_mem = << >>
    /\ hv_log = << >>
    /\ hv_snap = << >>

DRVIdle ==
    /\ drv_pc = "idle"
    /\ drv_in = [way |-> 0, root |-> << >>, id |-> 0, regs |-> << >>]
    /\ drv_mask = 0
    /\ drv_root = << >>
    /\ drv_regs = << >>
    /\ drv_desc = << >>
    /\ drv_count = 0
    /\ drv_ret = "0"

RGIdle ==
    /\ rg_pc = "idle"
    /\ rg_mask = << >>
    /\ rg_oob = FALSE
    /\ rg_values = << >>

NCInit ==
    /\ nc_pc = "call"
    /\ nc_in \in NCInputs
    /\ nc_out = [ret |-> 0, carries |-> 0, diverged |-> FALSE]
    /\ PLIdle
    /\ HVIdle
    /\ DRVIdle
    /\ RGIdle

NCCall ==
    /\ nc_pc = "call"
    /\ nc_out' = next_colored(nc_in.phys, calculate_addr_col_mask(nc_in.way),
                              nc_in.col_val)
    /\ nc_pc' = "done"
    /\ UNCHANGED <<nc_in, plVars, hvVars, drvVars, rgVars>>

NCNext == NCCall

SpecNC == NCInit /\ [][NCNext]_vars

(***************************************************************************)
(* Claims about next_colored (checked under SpecNC).                       *)
(***************************************************************************)
\* Whether color index c is selected by bitmap col_val.
Selected(col_val, c) == BitAt(col_val, c) = 1

\* The page-aligned addresses from phys up to two strides above it.
PagesFrom(phys, way) ==
    { phys + k * HV_PAGE_SIZE : k \in 0 .. (2 * ColorCount(way)) }

\* The lowest page-aligned address >= phys whose color index is selected.
LowestColored(phys, way, col_val) ==
    CHOOSE p \in PagesFrom(phys, way) :
        /\ Selected(col_val, ColorIndex(p, way))
        /\ \A q \in PagesFrom(phys, way) :
               Selected(col_val, ColorIndex(q, way)) => p <= q

InRange(col_val, way) == col_val > 0 /\ col_val < Pow2(ColorCount(way))

\* C7: for every geometry of 2, 4, 8 or 16 colors, every page-aligned phys and
\* every non-zero col_val < 2^color_count, next_colored returns the lowest
\* page-aligned address >= phys whose color index is a set bit of col_val.
C7_NextColoredLowest ==
    (nc_pc = "done" /\ InRange(nc_in.col_val, nc_in.way))
        => /\ ~nc_out.diverged
           /\ nc_out.ret = LowestColored(nc_in.phys, nc_in.way, nc_in.col_val)

\* C8: next_colored terminates for every col_val # 0, also when every set bit
\* of col_val is at a position >= color_count, and carries at most once.
C8_NextColoredTerminates ==
    (nc_pc = "done" /\ nc_in.col_val # 0)
        => (~nc_out.diverged /\ nc_out.carries <= 1)

\* C9: for every col_val with a set bit below color_count, next_colored gives
\* the result it gives for col_val mod 2^color_count: higher bits are ignored.
C9_HighBitsIgnored ==
    (nc_pc = "done"
        /\ nc_in.col_val % Pow2(ColorCount(nc_in.way)) # 0)
        => LET low == next_colored(nc_in.phys, calculate_addr_col_mask(nc_in.way),
                                   nc_in.col_val % Pow2(ColorCount(nc_in.way)))
           IN  /\ nc_out.diverged = low.diverged
               /\ nc_out.ret = low.ret

(***************************************************************************)
(* Fragment planner: __manage_colored_region up to the per-fragment        *)
(* switch.  cache.fragment_unit_size is PAGE_SIZE and                      *)
(* cache.fragment_unit_offset is cache.way_size.                           *)
(***************************************************************************)
PAGE_SIZE == HV_PAGE_SIZE

\* for (i = MAX_COLORS-1; i >= 0; --i, colors >>= 1) mask[i] = (colors & 1);
\* mask[i] of the code is color_bits(...)[i + 1] here.
color_bits(colors, MAX_COLORS) ==
    [ n \in 1 .. MAX_COLORS |-> BitAt(colors, MAX_COLORS - n) = 1 ]

\* A run scan that stops after one element.
run_end_one_step(mask, size, j, oob) == j + 1

\* while(mask[++j] && j < size);  When j reaches size the code reads mask[size],
\* one element past the array: oob stands for whatever that read yields.
RECURSIVE run_end(_, _, _, _)
run_end(mask, size, j, oob) ==
    LET j1 == j + 1
        mj == IF j1 < size THEN mask[j1 + 1] ELSE oob
    IN  IF mj /\ j1 < size THEN run_end(mask, size, j1, oob) ELSE j1

RECURSIVE ranges_scan(_, _, _, _, _, _)
ranges_scan(mask, size, k, current_value, values, oob) ==
    IF k >= size THEN values
    ELSE IF mask[k + 1]
         THEN LET j == run_end(mask, size, k, oob)
              IN  ranges_scan(mask, size, j + 1, current_value + 2,
                              [values EXCEPT ![current_value + 1] = k,
                                             ![current_value + 2] = j - 1],
                              oob)
         ELSE ranges_scan(mask, size, k + 1, current_value, values, oob)

\* values[n] of the code is ranges_in_mask(...)[n + 1] here.
ranges_in_mask(mask, size, oob) ==
    ranges_scan(mask, size, 0, 0, [ n \in 1 .. (2 * size) |-> -1 ], oob)

\* A planner that forgets the color offset of the range inside the stride.
frag_phys_start_no_color(phys_start, i, r, f_size, f_offset) ==
    phys_start + (r * f_offset)

\* frag_mem_region.phys_start = phys_start + (i * f_size) + (r * f_offset);
frag_phys_start(phys_start, i, r, f_size, f_offset) ==
    phys_start + (i * f_size) + (r * f_offset)

\* One pass of "for (k = 0; k < MAX_COLORS*2; k += 2)": every range of the mask
\* yields a fragment, with no test of the region's end inside a stride.
RECURSIVE plan_stride(_, _, _, _, _, _, _, _)
plan_stride(ranges, k, r, virt, R, f_size, f_offset, acc) ==
    IF k >= Len(ranges) THEN [virt |-> virt, frags |-> acc]
    ELSE IF ranges[k + 1] = -1
         THEN plan_stride(ranges, k + 2, r, virt, R, f_size, f_offset, acc)
         ELSE LET i    == ranges[k + 1]
                  j    == ranges[k + 2]
                  frag == [size       |-> (j - i + 1) * f_size,
                           phys_start |-> frag_phys_start(R.phys_start, i, r,
                                                          f_size, f_offset),
                           virt_start |-> virt,
                           flags      |-> R.flags]
              IN  plan_stride(ranges, k + 2, r, virt + frag.size, R,
                              f_size, f_offset, Append(acc, frag))

\* while (virt_start < col_mem.memory.virt_start + col_mem.memory.size) {...; ++r;}
\* A stride that emits no fragment leaves virt_start where it was, and so does
\* every later one: the loop then never ends (diverged).
RECURSIVE plan_loop(_, _, _, _, _, _, _)
plan_loop(ranges, r, virt, R, f_size, f_offset, acc) ==
    IF virt < R.virt_start + R.size
    THEN LET s == plan_stride(ranges, 0, r, virt, R, f_size, f_offset, acc)
         IN  IF s.virt = virt
             THEN [frags |-> acc, diverged |-> TRUE]
             ELSE plan_loop(ranges, r + 1, s.virt, R, f_size, f_offset, s.frags)
    ELSE [frags |-> acc, diverged |-> FALSE]

\* The fragments __manage_colored_region walks through for region R.
manage_colored_region_frags(R, way_size, oob) ==
    LET f_size     == PAGE_SIZE
        f_offset   == way_size
        MAX_COLORS == f_offset \div f_size
        mask       == color_bits(R.colors, MAX_COLORS)
        ranges     == ranges_in_mask(mask, MAX_COLORS, oob)
    IN  plan_loop(ranges, 0, R.virt_start, R, f_size, f_offset, << >>)

(***************************************************************************)
(* Planner harness: one region (SpecPlan) or two regions on the same       *)
(* physical pool (SpecIso).                                                *)
(***************************************************************************)
\* Region sizes, in pages.
MaxPages == 5

RegionSizes == { n * PAGE_SIZE : n \in 1 .. MaxPages }

\* Region bases: aligned to every way size, and one page above that.
PhysStarts == { 0, PAGE_SIZE, Pow2(20), Pow2(20) + PAGE_SIZE }

\* A guest-virtual base.
VIRT_BASE == Pow2(24)

\* Color bitmaps handed to the planner: 0 and out-of-range values included,
\* since the hypervisor plans whatever the configuration holds.
PlanColors(way) ==
    IF ColorCount(way) = 16
    THEN Samples16 \cup Wide16 \cup {0}
    ELSE 0 .. (Pow2(ColorCount(way) + ExtraBits) - 1)

MkRegion(phys, virt, size, colors, flags) ==
    [phys_start |-> phys, virt_start |-> virt, size |-> size,
     colors |-> colors, flags |-> flags]

PlanInit ==
    /\ pl_pc = "plan"
    /\ pl_way \in WaySizes
    /\ pl_oob \in BOOLEAN
    /\ \E ph \in PhysStarts, sz \in RegionSizes, c \in PlanColors(pl_way) :
           pl_regs = << MkRegion(ph, VIRT_BASE, sz, c, {}) >>
    /\ pl_frags = << >>
    /\ NCIdle
    /\ RGIdle
    /\ HVIdle
    /\ DRVIdle

\* Bitmaps for pairs of regions on the larger geometries.
PairColors(way) ==
    IF ColorCount(way) <= 4 THEN 1 .. (Pow2(ColorCount(way)) - 1)
    ELSE IF ColorCount(way) = 8 THEN { 1, 6, 15, 240, 90, 165, 129, 126, 255 }
    ELSE { 255, 65280, 3840, 61440, 43690, 21845, 50115, 15420, 1 }

IsoInit ==
    /\ pl_pc = "plan"
    /\ pl_way \in WaySizes
    /\ pl_oob \in BOOLEAN
    /\ \E ph \in PhysStarts, sa \in RegionSizes, sb \in RegionSizes,
          ca \in PairColors(pl_way), cb \in PairColors(pl_way) :
           pl_regs = << MkRegion(ph, VIRT_BASE, sa, ca, {}),
                        MkRegion(ph, VIRT_BASE, sb, cb, {}) >>
    /\ pl_frags = << >>
    /\ NCIdle
    /\ RGIdle
    /\ HVIdle
    /\ DRVIdle

PlanRegions ==
    /\ pl_pc = "plan"
    /\ pl_frags' = [ n \in 1 .. Len(pl_regs) |->
                       manage_colored_region_frags(pl_regs[n], pl_way, pl_oob) ]
    /\ pl_pc' = "done"
    /\ UNCHANGED <<pl_way, pl_oob, pl_regs, ncVars, hvVars, drvVars, rgVars>>

PlanNext == PlanRegions

SpecPlan == PlanInit /\ [][PlanNext]_vars

SpecIso == IsoInit /\ [][PlanNext]_vars

(***************************************************************************)
(* Claims about the fragment planner (SpecPlan, SpecIso).                  *)
(***************************************************************************)
\* The page addresses a fragment covers, physical and virtual.
FragPhysPages(frag) ==
    { frag.phys_start + n * PAGE_SIZE : n \in 0 .. ((frag.size \div PAGE_SIZE) - 1) }

RegionPhysPages(out) ==
    UNION { FragPhysPages(out.frags[n]) : n \in 1 .. Len(out.frags) }

RECURSIVE SumSizes(_, _)
SumSizes(frags, n) ==
    IF n = 0 THEN 0 ELSE frags[n].size + SumSizes(frags, n - 1)

HasColorBelowCount(colors, way) == colors % Pow2(ColorCount(way)) # 0

\* C1: every physical page of every fragment emitted for region R has a color
\* index that is a set bit of R.colors, whatever the geometry, the alignment of
\* R.phys_start and the bitmap.
C1_ColorPurity ==
    pl_pc = "done" =>
        \A n \in 1 .. Len(pl_regs) :
            \A p \in RegionPhysPages(pl_frags[n]) :
                Selected(pl_regs[n].colors, ColorIndex(p, pl_way))

\* C2: for a region whose size is a positive multiple of the page size and whose
\* colors has a bit below color_count, the fragments tile
\* [virt_start, virt_start + size) exactly: they start at virt_start, each starts
\* where the previous one ends, none goes past the end, the sizes sum to size.
C2_Coverage ==
    pl_pc = "done" =>
        \A n \in 1 .. Len(pl_regs) :
            LET R  == pl_regs[n]
                fs == pl_frags[n].frags
            IN  HasColorBelowCount(R.colors, pl_way) =>
                    /\ ~pl_frags[n].diverged
                    /\ Len(fs) > 0
                    /\ fs[1].virt_start = R.virt_start
                    /\ \A m \in 1 .. (Len(fs) - 1) :
                           fs[m + 1].virt_start = fs[m].virt_start + fs[m].size
                    /\ \A m \in 1 .. Len(fs) :
                           fs[m].virt_start + fs[m].size <= R.virt_start + R.size
                    /\ SumSizes(fs, Len(fs)) = R.size

\* C3: two regions on the same physical pool (same phys_start) with disjoint
\* color bitmaps share no physical page frame, for every pair of sizes.
C3_Isolation ==
    (pl_pc = "done" /\ Len(pl_regs) = 2
        /\ pl_regs[1].phys_start = pl_regs[2].phys_start
        /\ BitAnd(pl_regs[1].colors, pl_regs[2].colors) = 0)
        => RegionPhysPages(pl_frags[1]) \cap RegionPhysPages(pl_frags[2]) = {}

\* Two planned regions with disjoint bitmaps, different sizes, several strides
\* each, whose physical extents interleave.
C3_Witness ==
    /\ pl_pc = "done" /\ Len(pl_regs) = 2
    /\ BitAnd(pl_regs[1].colors, pl_regs[2].colors) = 0
    /\ pl_regs[1].size # pl_regs[2].size
    /\ Len(pl_frags[1].frags) >= 2 /\ Len(pl_frags[2].frags) >= 2
    /\ \E p \in RegionPhysPages(pl_frags[1]), q \in RegionPhysPages(pl_frags[2]) :
           p < q /\ \E p2 \in RegionPhysPages(pl_frags[1]) : q < p2

(***************************************************************************)
(* Collaborators of the region operator.  A page table is a set of         *)
(* <<virt, phys>> page pairs; the root cell's RAM is identity-mapped.      *)
(***************************************************************************)
PagesOf(base, size) ==
    { base + n * PAGE_SIZE : n \in 0 .. ((size \div PAGE_SIZE) - 1) }

\* paging_create: map [virt, virt + size) onto [phys, phys + size).
paging_create(tbl, phys, size, virt) ==
    { pr \in tbl : pr[1] \notin PagesOf(virt, size) }
        \cup { <<virt + o, phys + o>> : o \in PagesOf(0, size) }

\* paging_destroy: unmap [virt, virt + size).
paging_destroy(tbl, virt, size) ==
    { pr \in tbl : pr[1] \notin PagesOf(virt, size) }

\* paging_hvirt2phys(&cell->comm_page): the frame of the communication page of
\* the cell the function is handed; comm_page is a member of struct cell, so
\* the root cell and another cell have different frames.
comm_page(cell) ==
    IF cell = "root" THEN 3 * Pow2(26) + PAGE_SIZE ELSE 3 * Pow2(26)

\* What arch_map_memory_region and arm_smmu_map_memory_region hand to
\* paging_create:
\* if (mem->flags & JAILHOUSE_MEM_COMM_REGION) phys_start = paging_hvirt2phys(..)
mapped_region(cell, mem) ==
    [mem EXCEPT !.phys_start = IF "COMM_REGION" \in mem.flags
                               THEN comm_page(cell) ELSE @]

\* arch_map_memory_region(cell, mem) on the stage-2 table of that cell, when it
\* returns 0.  The function calls iommu_map_memory_region first and returns its
\* error before it touches the table; when paging_create fails it takes the
\* IOMMU mapping back (iommu_unmap_memory_region) and returns the error.  In
\* both cases the stage-2 table is as it was: that is the failing call of the
\* operations (Fails, Failed), which logs the call and changes no table.
arch_map_memory_region(cell, tbl, mem) ==
    LET m == mapped_region(cell, mem)
    IN  paging_create(tbl, m.phys_start, m.size, m.virt_start)

\* arm_smmu_map_memory_region(cell, mem): paging_create on cell->arch.iomm
arm_smmu_map_memory_region(cell, tbl, mem) ==
    LET m == mapped_region(cell, mem)
    IN  paging_create(tbl, m.phys_start, m.size, m.virt_start)

arch_unmap_memory_region(tbl, mem) ==
    paging_destroy(tbl, mem.virt_start, mem.size)

\* unmap_from_root_cell: take the frames of mem away from the root cell.
unmap_from_root_cell(roottbl, mem) ==
    paging_destroy(roottbl, mem.phys_start, mem.size)

\* remap_to_root_cell: give those frames of mem that are root RAM back to it.
remap_to_root_cell(roottbl, mem, rootram) ==
    LET back == PagesOf(mem.phys_start, mem.size) \cap rootram
    IN  { pr \in roottbl : pr[1] \notin back } \cup { <<q, q>> : q \in back }

\* The page a table maps virt to, or -1.
Translate(tbl, virt) ==
    IF \E pr \in tbl : pr[1] = virt
    THEN (CHOOSE pr \in tbl : pr[1] = virt)[2]
    ELSE -1

\* Virtual bases of the hypervisor's colored view and of its scratch window.
ROOT_MAP_OFFSET == Pow2(28)

TEMPORARY_MAPPING_BASE == Pow2(29)

(***************************************************************************)
(* Region operator: the switch (type) of __manage_colored_region, applied  *)
(* to one fragment.  S is [tbl, err, calls, log, stop]; calls counts the   *)
(* collaborator calls of this invocation and the call number failAt (if    *)
(* any) returns an error and changes nothing.                              *)
(***************************************************************************)
IsComm(frag) == frag.flags \cap {"COMM_REGION", "ROOTSHARED"} # {}

\* JAILHOUSE_MEMORY_IS_SUBPAGE: ((mem)->virt_start & PAGE_OFFS_MASK ||
\* (mem)->size & PAGE_OFFS_MASK), a fragment that does not start on a page
\* boundary or is not a whole number of pages.
IsSubpage(frag) == frag.virt_start % PAGE_SIZE # 0 \/ frag.size % PAGE_SIZE # 0

Called(S, name, frag) ==
    [S EXCEPT !.calls = @ + 1,
              !.log = Append(@, [call |-> name, phys |-> frag.phys_start,
                                 virt |-> frag.virt_start, size |-> frag.size,
                                 ok |-> TRUE])]

Fails(S, failAt) == S.calls + 1 = failAt

Failed(S, name, frag, code) ==
    [Called(S, name, frag) EXCEPT !.err = code, !.stop = TRUE,
                                  !.log[Len(S.log) + 1].ok = FALSE]

TblOf(cell) == IF cell = "root" THEN "root" ELSE "cell"

\* case CREATE that maps the fragment and leaves the root cell alone.
op_create_no_steal(S, frag, cell, rootram, failAt) ==
    IF Fails(S, failAt) THEN Failed(S, "map", mapped_region(cell, frag), "ENOMEM")
    ELSE [Called(S, "map", mapped_region(cell, frag)) EXCEPT
             !.err = "0",
             !.tbl[TblOf(cell)] = arch_map_memory_region(cell, @, frag)]

\* case CREATE
op_create(S, frag, cell, rootram, failAt) ==
    LET S1 == IF ~IsComm(frag)
              THEN IF Fails(S, failAt)
                   THEN Failed(S, "unmap_root", frag, "ENOMEM")
                   ELSE [Called(S, "unmap_root", frag) EXCEPT
                            !.err = "0",
                            !.tbl.root = unmap_from_root_cell(@, frag)]
              ELSE S
    IN  IF S1.stop THEN S1
        ELSE IF Fails(S1, failAt)
             THEN IF IsSubpage(frag)
                  THEN Failed(S1, "subpage", frag, "ENOMEM")
                  ELSE Failed(S1, "map", mapped_region(cell, frag), "ENOMEM")
             ELSE IF IsSubpage(frag)
                  THEN [Called(S1, "subpage", frag) EXCEPT !.err = "0"]
                  ELSE [Called(S1, "map", mapped_region(cell, frag)) EXCEPT
                           !.err = "0",
                           !.tbl[TblOf(cell)] = arch_map_memory_region(cell, @, frag)]

\* case DESTROY without the remap to the root cell.
op_destroy_no_remap(S, frag, cell, rootram, failAt) ==
    IF IsSubpage(frag) THEN S
    ELSE IF Fails(S, failAt) THEN Failed(S, "unmap", frag, "EINVAL")
         ELSE [Called(S, "unmap", frag) EXCEPT
                  !.err = "0",
                  !.tbl[TblOf(cell)] = arch_unmap_memory_region(@, frag)]

\* case DESTROY
op_destroy(S, frag, cell, rootram, failAt) ==
    LET S1 == IF ~IsSubpage(frag)
              THEN IF Fails(S, failAt)
                   THEN Failed(S, "unmap", frag, "EINVAL")
                   ELSE [Called(S, "unmap", frag) EXCEPT
                            !.err = "0",
                            !.tbl[TblOf(cell)] = arch_unmap_memory_region(@, frag)]
              ELSE S
    IN  IF S1.stop THEN S1
        ELSE IF ~IsComm(frag)
             THEN IF Fails(S1, failAt)
                  THEN Failed(S1, "remap_root", frag, "ENOMEM")
                  ELSE [Called(S1, "remap_root", frag) EXCEPT
                           !.err = "0",
                           !.tbl.root = remap_to_root_cell(@, frag, rootram)]
             ELSE S1

\* case HV_CREATE
op_hv_create(S, frag, failAt) ==
    IF Fails(S, failAt) THEN Failed(S, "hv_map", frag, "ENOMEM")
    ELSE [Called(S, "hv_map", frag) EXCEPT
             !.err = "0",
             !.tbl.hv = paging_create(@, frag.phys_start, frag.size,
                                      frag.virt_start + ROOT_MAP_OFFSET)]

\* case HV_DESTROY that unmaps at the fragment's own virtual address.
op_hv_destroy_guest(S, frag, failAt) ==
    IF Fails(S, failAt) THEN Failed(S, "hv_unmap", frag, "EINVAL")
    ELSE [Called(S, "hv_unmap", frag) EXCEPT
             !.err = "0",
             !.tbl.hv = paging_destroy(@, frag.virt_start, frag.size)]

\* case HV_DESTROY
op_hv_destroy(S, frag, failAt) ==
    IF Fails(S, failAt) THEN Failed(S, "hv_unmap", frag, "EINVAL")
    ELSE [Called(S, "hv_unmap", frag) EXCEPT
             !.err = "0",
             !.tbl.hv = paging_destroy(@, frag.virt_start + ROOT_MAP_OFFSET,
                                       frag.size)]

\* The loader's view of a fragment: frag_mem_region.virt_start += ROOT_MAP_OFFSET
Rebased(frag) == [frag EXCEPT !.virt_start = @ + ROOT_MAP_OFFSET]

\* case LOAD: arch_map_memory_region(&root_cell, &frag_mem_region)
op_load(S, frag, failAt) ==
    IF "LOADABLE" \in frag.flags
    THEN IF Fails(S, failAt)
         THEN Failed(S, "load_map", mapped_region("root", Rebased(frag)), "ENOMEM")
         ELSE [Called(S, "load_map", mapped_region("root", Rebased(frag))) EXCEPT
                  !.err = "0",
                  !.tbl.root = arch_map_memory_region("root", @, Rebased(frag))]
    ELSE S

\* case START
op_start(S, frag, failAt) ==
    IF "LOADABLE" \in frag.flags
    THEN IF Fails(S, failAt) THEN Failed(S, "start_unmap", Rebased(frag), "ENOMEM")
         ELSE [Called(S, "start_unmap", Rebased(frag)) EXCEPT
                  !.err = "0",
                  !.tbl.root = arch_unmap_memory_region(@, Rebased(frag))]
    ELSE S

\* case SMMU_CREATE: -ENOSYS without a call when col_ops.smmu_map_f is NULL;
\* arm_smmu_map_memory_region is a paging_create on cell->arch.iomm
op_smmu_create(S, frag, cell, failAt) ==
    IF ~S.smmu_map_f THEN [S EXCEPT !.err = "ENOSYS", !.stop = TRUE]
    ELSE IF Fails(S, failAt)
         THEN Failed(S, "smmu_map", mapped_region(cell, frag), "ENOMEM")
    ELSE [Called(S, "smmu_map", mapped_region(cell, frag)) EXCEPT
             !.err = "0",
             !.tbl.smmu = arm_smmu_map_memory_region(cell, @, frag)]

\* case SMMU_DESTROY: -ENOSYS when col_ops.smmu_unmap_f is NULL, else nothing
\* ("TODO: implement this")
op_smmu_destroy(S, frag, failAt) ==
    IF ~S.smmu_unmap_f THEN [S EXCEPT !.err = "ENOSYS", !.stop = TRUE]
    ELSE S

\* while (region_size > 0) of case DCACHE: map a slice at the scratch address and
\* flush it; the frame flushed is the one the scratch address translates to
RECURSIVE dcache_loop(_, _, _)
dcache_loop(S, region_addr, region_size) ==
    IF region_size <= 0 THEN S
    ELSE LET size == Min(region_size, S.ntp * PAGE_SIZE)
             tbl1 == paging_create(S.tbl.hv, region_addr, size,
                                   TEMPORARY_MAPPING_BASE)
             S1   == [S EXCEPT !.tbl.hv = tbl1,
                               !.log = Append(@,
                                   [call |-> "flush",
                                    phys |-> Translate(tbl1, TEMPORARY_MAPPING_BASE),
                                    virt |-> TEMPORARY_MAPPING_BASE,
                                    size |-> size, ok |-> TRUE])]
         IN  dcache_loop(S1, region_addr + size, region_size - size)

\* case DCACHE that flushes the first slice of the fragment only.
op_dcache_first_slice(S, frag) ==
    dcache_loop([S EXCEPT !.err = "0"], frag.phys_start,
                Min(frag.size, S.ntp * PAGE_SIZE))

\* case DCACHE: err = 0, then the slices
op_dcache(S, frag) ==
    dcache_loop([S EXCEPT !.err = "0"], frag.phys_start, frag.size)

apply_fragment(type, S, frag, cell, rootram, failAt) ==
    CASE type = "CREATE"     -> op_create(S, frag, cell, rootram, failAt)
      [] type = "SMMU_CREATE"  -> op_smmu_create(S, frag, cell, failAt)
      [] type = "SMMU_DESTROY" -> op_smmu_destroy(S, frag, failAt)
      [] type = "DCACHE"       -> op_dcache(S, frag)
      [] type = "DESTROY"    -> op_destroy(S, frag, cell, rootram, failAt)
      [] type = "HV_CREATE"  -> op_hv_create(S, frag, failAt)
      [] type = "HV_DESTROY" -> op_hv_destroy(S, frag, failAt)
      [] type = "LOAD"       -> op_load(S, frag, failAt)
      [] type = "START"      -> op_start(S, frag, failAt)
      [] OTHER               -> S

\* A walk over the fragments that goes on after an error.
RECURSIVE for_each_fragment_no_stop(_, _, _, _, _, _, _)
for_each_fragment_no_stop(type, frags, n, S, cell, rootram, failAt) ==
    IF n > Len(frags) THEN S
    ELSE for_each_fragment_no_stop(type, frags, n + 1,
                                   apply_fragment(type, S, frags[n], cell, rootram,
                                                  failAt),
                                   cell, rootram, failAt)

RECURSIVE for_each_fragment(_, _, _, _, _, _, _)
for_each_fragment(type, frags, n, S, cell, rootram, failAt) ==
    IF n > Len(frags) THEN S
    ELSE LET applied(S1) ==
                 IF S1.stop THEN S1
                 ELSE for_each_fragment(type, frags, n + 1, S1, cell, rootram, failAt)
         IN  applied(apply_fragment(type, S, frags[n], cell, rootram, failAt))

\* __manage_colored_region(col_mem, cell, type, extra): err starts as -EINVAL and
\* is what the function returns; hang = TRUE when the planner's loop never ends.
manage_colored_region(R, cell, type, tbl, log, cfg, failAt) ==
    LET plan == manage_colored_region_frags(R, cfg.way, cfg.oob)
        S0   == [tbl |-> tbl, err |-> "EINVAL", calls |-> 0, log |-> log,
                 stop |-> FALSE, hang |-> FALSE, ntp |-> cfg.ntp,
                 smmu_map_f |-> cfg.smmu_map_f, smmu_unmap_f |-> cfg.smmu_unmap_f]
    IN  IF plan.diverged THEN [S0 EXCEPT !.hang = TRUE]
        ELSE for_each_fragment(type, plan.frags, 1, S0, cell, cfg.rootram, failAt)

\* cache.level: the index of the last unified level found by coloring_cache_detect,
\* or -1 when no level is unified
UNIFIED_LEVEL == 2
NO_CACHE_LEVEL == -1

\* __coloring_cell_apply_to_col_mem: every colored region of the cell in
\* declaration order, stopping at the first error.
RECURSIVE apply_to_col_mem_from(_, _, _, _, _, _, _)
apply_to_col_mem_from(n, cell, type, tbl, log, cfg, fail) ==
    IF n > Len(cfg.regs)
    THEN [tbl |-> tbl, err |-> "0", log |-> log, hang |-> FALSE]
    ELSE LET returned(S) ==
                 IF S.hang \/ S.err # "0"
                 THEN [tbl |-> S.tbl, err |-> S.err, log |-> S.log, hang |-> S.hang]
                 ELSE apply_to_col_mem_from(n + 1, cell, type, S.tbl, S.log, cfg, fail)
         IN  returned(manage_colored_region(cfg.regs[n], cell, type, tbl, log, cfg,
                                            IF fail.reg = n THEN fail.call ELSE 0))

\* -ENODEV when no cache level was detected and the cell has colored regions
coloring_cell_apply_to_col_mem(cell, type, tbl, log, cfg, fail) ==
    IF cfg.level = NO_CACHE_LEVEL /\ Len(cfg.regs) > 0
    THEN [tbl |-> tbl, err |-> "ENODEV", log |-> log, hang |-> FALSE]
    ELSE apply_to_col_mem_from(1, cell, type, tbl, log, cfg, fail)

(***************************************************************************)
(* Recoloring engine.  Memory is a function from page addresses to page    *)
(* contents; the hypervisor reads and writes it through its own table.     *)
(* M is [mem, log].                                                        *)
(***************************************************************************)
\* memcpy(dst, src, PAGE_SIZE) between two hypervisor-virtual pages.
memcpy_page(M, tbl, dst, src, tag, phys, virt) ==
    LET d == Translate(tbl, dst)
        s == Translate(tbl, src)
    IN  [mem |-> IF d \in DOMAIN M.mem /\ s \in DOMAIN M.mem
                 THEN [M.mem EXCEPT ![d] = M.mem[s]]
                 ELSE M.mem,
         log |-> Append(M.log, [call |-> tag, phys |-> phys, virt |-> virt,
                                size |-> PAGE_SIZE, ok |-> TRUE])]

\* The pages 0 .. i of a slice copied in ascending order.
RECURSIVE copy_pages_ascending(_, _, _, _, _)
copy_pages_ascending(M, tbl, phys_addr, virt_addr, i) ==
    IF i < 0 THEN M
    ELSE memcpy_page(copy_pages_ascending(M, tbl, phys_addr, virt_addr, i - 1),
                     tbl,
                     ROOT_MAP_OFFSET + virt_addr + i * PAGE_SIZE,
                     TEMPORARY_MAPPING_BASE + i * PAGE_SIZE,
                     "copy", phys_addr + i * PAGE_SIZE,
                     virt_addr + i * PAGE_SIZE)

\* for (i = (size >> PAGE_SHIFT) - 1; i >= 0; --i) of colored_copy
RECURSIVE copy_pages_down(_, _, _, _, _)
copy_pages_down(M, tbl, phys_addr, virt_addr, i) ==
    IF i < 0 THEN M
    ELSE copy_pages_down(
             memcpy_page(M, tbl,
                         ROOT_MAP_OFFSET + virt_addr + i * PAGE_SIZE,
                         TEMPORARY_MAPPING_BASE + i * PAGE_SIZE,
                         "copy", phys_addr + i * PAGE_SIZE,
                         virt_addr + i * PAGE_SIZE),
             tbl, phys_addr, virt_addr, i - 1)

\* The same pages in ascending order.
RECURSIVE copy_pages_up(_, _, _, _, _, _)
copy_pages_up(M, tbl, phys_addr, virt_addr, i, n) ==
    IF i >= n THEN M
    ELSE copy_pages_up(
             memcpy_page(M, tbl,
                         ROOT_MAP_OFFSET + virt_addr + i * PAGE_SIZE,
                         TEMPORARY_MAPPING_BASE + i * PAGE_SIZE,
                         "copy", phys_addr + i * PAGE_SIZE,
                         virt_addr + i * PAGE_SIZE),
             tbl, phys_addr, virt_addr, i + 1, n)

\* while (tot_size > 0) of colored_copy: slices from the end of the region.
RECURSIVE colored_copy_loop(_, _, _, _, _, _, _)
colored_copy_loop(M, tbl, mem, phys_addr, virt_addr, tot_size, ntp) ==
    IF tot_size <= 0 THEN [mem |-> M.mem, log |-> M.log, tbl |-> tbl]
    ELSE LET size == Min(tot_size, ntp * PAGE_SIZE)
             pa   == IF phys_addr - size < mem.phys_start
                     THEN mem.phys_start ELSE phys_addr - size
             va   == IF virt_addr - size < mem.virt_start
                     THEN mem.virt_start ELSE virt_addr - size
             tbl1 == paging_create(tbl, pa, size, TEMPORARY_MAPPING_BASE)
             M1   == copy_pages_down(M, tbl1, pa, va, (size \div PAGE_SIZE) - 1)
         IN  colored_copy_loop(M1, tbl1, mem, pa, va, tot_size - size, ntp)

\* The same copy made from the start of the region upwards.
RECURSIVE colored_copy_up_loop(_, _, _, _, _, _, _)
colored_copy_up_loop(M, tbl, mem, phys_addr, virt_addr, tot_size, ntp) ==
    IF tot_size <= 0 THEN [mem |-> M.mem, log |-> M.log, tbl |-> tbl]
    ELSE LET size == Min(tot_size, ntp * PAGE_SIZE)
             tbl1 == paging_create(tbl, phys_addr, size, TEMPORARY_MAPPING_BASE)
             M1   == copy_pages_up(M, tbl1, phys_addr, virt_addr, 0,
                                   size \div PAGE_SIZE)
         IN  colored_copy_up_loop(M1, tbl1, mem, phys_addr + size,
                                  virt_addr + size, tot_size - size, ntp)

colored_copy_forward(col_mem, M, tbl, ntp) ==
    colored_copy_up_loop(M, tbl, col_mem, col_mem.phys_start, col_mem.virt_start,
                         col_mem.size, ntp)

\* colored_copy(col_mem), SCHIM_RECOLORING_ENABLE being 1.
colored_copy(col_mem, M, tbl, ntp) ==
    colored_copy_loop(M, tbl, col_mem, col_mem.phys_start + col_mem.size,
                      col_mem.virt_start + col_mem.size, col_mem.size, ntp)

\* for (i = 0; i < (size >> PAGE_SHIFT); ++i) of colored_uncopy
RECURSIVE uncopy_pages_up(_, _, _, _, _, _)
uncopy_pages_up(M, tbl, phys_addr, virt_addr, i, n) ==
    IF i >= n THEN M
    ELSE uncopy_pages_up(
             memcpy_page(M, tbl,
                         TEMPORARY_MAPPING_BASE + i * PAGE_SIZE,
                         ROOT_MAP_OFFSET + virt_addr + i * PAGE_SIZE,
                         "uncopy", phys_addr + i * PAGE_SIZE,
                         virt_addr + i * PAGE_SIZE),
             tbl, phys_addr, virt_addr, i + 1, n)

\* The same pages in descending order.
RECURSIVE uncopy_pages_down(_, _, _, _, _)
uncopy_pages_down(M, tbl, phys_addr, virt_addr, i) ==
    IF i < 0 THEN M
    ELSE uncopy_pages_down(
             memcpy_page(M, tbl,
                         TEMPORARY_MAPPING_BASE + i * PAGE_SIZE,
                         ROOT_MAP_OFFSET + virt_addr + i * PAGE_SIZE,
                         "uncopy", phys_addr + i * PAGE_SIZE,
                         virt_addr + i * PAGE_SIZE),
             tbl, phys_addr, virt_addr, i - 1)

\* while (tot_size > 0) of colored_uncopy: slices from the start of the region.
RECURSIVE colored_uncopy_loop(_, _, _, _, _, _)
colored_uncopy_loop(M, tbl, phys_addr, virt_addr, tot_size, ntp) ==
    IF tot_size <= 0 THEN [mem |-> M.mem, log |-> M.log, tbl |-> tbl]
    ELSE LET size == Min(tot_size, ntp * PAGE_SIZE)
             tbl1 == paging_create(tbl, phys_addr, size, TEMPORARY_MAPPING_BASE)
             M1   == uncopy_pages_up(M, tbl1, phys_addr, virt_addr, 0,
                                     size \div PAGE_SIZE)
         IN  colored_uncopy_loop(M1, tbl1, phys_addr + size, virt_addr + size,
                                 tot_size - size, ntp)

\* The same uncopy made from the end of the region downwards.
RECURSIVE colored_uncopy_down_loop(_, _, _, _, _, _)
colored_uncopy_down_loop(M, tbl, phys_addr, virt_addr, tot_size, ntp) ==
    IF tot_size <= 0 THEN [mem |-> M.mem, log |-> M.log, tbl |-> tbl]
    ELSE LET size == Min(tot_size, ntp * PAGE_SIZE)
             pa   == phys_addr - size
             va   == virt_addr - size
             tbl1 == paging_create(tbl, pa, size, TEMPORARY_MAPPING_BASE)
             M1   == uncopy_pages_down(M, tbl1, pa, va, (size \div PAGE_SIZE) - 1)
         IN  colored_uncopy_down_loop(M1, tbl1, pa, va, tot_size - size, ntp)

colored_uncopy_backward(col_mem, M, tbl, ntp) ==
    colored_uncopy_down_loop(M, tbl, col_mem.phys_start + col_mem.size,
                             col_mem.virt_start + col_mem.size, col_mem.size, ntp)

\* colored_uncopy(col_mem), SCHIM_RECOLORING_ENABLE being 1.
colored_uncopy(col_mem, M, tbl, ntp) ==
    colored_uncopy_loop(M, tbl, col_mem.phys_start, col_mem.virt_start,
                        col_mem.size, ntp)

(***************************************************************************)
(* coloring_cell_init and coloring_cell_exit, one action per call they     *)
(* make.  hv_cfg.cell is "root" for the root cell (enable and shutdown)    *)
(* and "cell" for a cell created and destroyed by hypercall.               *)
(***************************************************************************)
\* coloring_cell_create(cell) and coloring_cell_destroy(cell)
coloring_cell_create(cell, tbl, log, cfg, fail) ==
    coloring_cell_apply_to_col_mem(cell, "CREATE", tbl, log, cfg, fail)

coloring_cell_destroy(cell, tbl, log, cfg, fail) ==
    coloring_cell_apply_to_col_mem(cell, "DESTROY", tbl, log, cfg, fail)

\* Slices of the recoloring copy, in pages, and the collaborator call that fails.
MaxTemp == 2

MaxFail == 2

FailAts == 0 .. MaxFail

HvColors(way) ==
    IF ColorCount(way) = 2 THEN 0 .. 4
    ELSE IF ColorCount(way) = 4 THEN { 0, 1, 3, 5, 6, 8, 10, 15, 16, 19 }
    ELSE PairColors(way) \cup {0, Pow2(ColorCount(way))}

\* Every page of physical memory the configuration can touch.
MemPagesOf(regs, way, oob) ==
    UNION { PagesOf(regs[n].phys_start, regs[n].size)
              \cup (LET plan == manage_colored_region_frags(regs[n], way, oob)
                    IN  IF plan.diverged THEN {} ELSE RegionPhysPages(plan))
            : n \in 1 .. Len(regs) }

\* The root cell with one or two colored regions of its own RAM, mapped 1:1.
OneRegionConfigs ==
    { [way |-> w, ntp |-> t, oob |-> b, cell |-> "root",
       regs |-> << MkRegion(ph, ph, sz, c, {}) >>, wide |-> TRUE]
      : w \in WaySizes, t \in 1 .. MaxTemp, b \in BOOLEAN,
        ph \in { Pow2(20), Pow2(20) + PAGE_SIZE }, sz \in RegionSizes,
        c \in UNION { HvColors(x) : x \in WaySizes } }

TwoRegionConfigs ==
    { [way |-> w, ntp |-> t, oob |-> FALSE, cell |-> "root",
       regs |-> << MkRegion(Pow2(20) + PAGE_SIZE, Pow2(20) + PAGE_SIZE, sz, c, {}),
                   MkRegion(Pow2(22), Pow2(22), 3 * PAGE_SIZE, 3, {}) >>,
       wide |-> TRUE]
      : w \in WaySizes, t \in 1 .. MaxTemp, sz \in RegionSizes,
        c \in UNION { HvColors(x) : x \in WaySizes } }

RootConfigs == OneRegionConfigs \cup TwoRegionConfigs

\* A cell with one colored region on the pool at Pow2(20).
CellConfigs ==
    { [way |-> w, ntp |-> 1, oob |-> b, cell |-> "cell",
       regs |-> << MkRegion(Pow2(20), VIRT_BASE, sz, c, fl) >>,
       wide |-> wd]
      : w \in WaySizes, b \in BOOLEAN, wd \in BOOLEAN, sz \in RegionSizes,
        c \in UNION { HvColors(x) : x \in WaySizes },
        fl \in { {}, {"COMM_REGION"} } }

HvConfigs ==
    { k \in RootConfigs \cup CellConfigs : k.regs[1].colors \in HvColors(k.way) }

\* Root RAM: everything the regions and their frames cover, or the regions only.
RootRamOf(k) ==
    IF k.wide THEN MemPagesOf(k.regs, k.way, k.oob)
    ELSE UNION { PagesOf(k.regs[n].phys_start, k.regs[n].size)
                 : n \in 1 .. Len(k.regs) }

HvInit ==
    /\ \E k \in HvConfigs :
         /\ hv_cfg = [way |-> k.way, ntp |-> k.ntp, oob |-> k.oob,
                      regs |-> k.regs, cell |-> k.cell, rootram |-> RootRamOf(k),
                      level |-> UNIFIED_LEVEL,
                      smmu_map_f |-> FALSE, smmu_unmap_f |-> FALSE]
         /\ hv_mem = [ pg \in MemPagesOf(k.regs, k.way, k.oob) |-> pg ]
         /\ hv_tbl = [hv   |-> {},
                      root |-> { <<q, q>> : q \in RootRamOf(k) },
                      cell |-> { <<Pow2(26), Pow2(26)>> },
                      smmu |-> {}]
    /\ hv_pc = "cell_init"
    /\ hv_n = 1
    /\ hv_err = "0"
    /\ hv_log = << >>
    /\ hv_snap = [tbl |-> hv_tbl, mem |-> hv_mem]
    /\ NCIdle
    /\ RGIdle
    /\ PLIdle
    /\ DRVIdle

HvFrozen == UNCHANGED <<hv_cfg, hv_snap, ncVars, plVars, drvVars, rgVars>>

\* A call of __manage_colored_region from coloring_cell_init/coloring_cell_exit:
\* on an error the handler returns (to pc bad); otherwise it goes on (to pc ok).
HvManage(type, ok, bad, next_n) ==
    \E f \in FailAts :
        LET S == manage_colored_region(hv_cfg.regs[hv_n], hv_cfg.cell, type,
                                       hv_tbl, hv_log, hv_cfg, f)
        IN  /\ hv_tbl' = S.tbl
            /\ hv_log' = S.log
            /\ hv_err' = S.err
            /\ hv_pc' = IF S.hang THEN "hang" ELSE IF S.err # "0" THEN bad ELSE ok
            /\ hv_n' = IF S.hang \/ S.err # "0" THEN hv_n ELSE next_n
            /\ UNCHANGED hv_mem
            /\ HvFrozen

\* coloring_cell_init, root cell: HV_CREATE of region hv_n
InitHvCreate ==
    /\ hv_pc = "cell_init"
    /\ hv_cfg.cell = "root"
    /\ hv_n <= Len(hv_cfg.regs)
    /\ HvManage("HV_CREATE", "copy", "init_failed", hv_n)

\* coloring_cell_init, root cell: colored_copy of region hv_n
InitCopy ==
    /\ hv_pc = "copy"
    /\ LET C == colored_copy(hv_cfg.regs[hv_n], [mem |-> hv_mem, log |-> hv_log],
                             hv_tbl.hv, hv_cfg.ntp)
       IN  /\ hv_mem' = C.mem
           /\ hv_log' = C.log
           /\ hv_tbl' = [hv_tbl EXCEPT !.hv = C.tbl]
    /\ hv_pc' = "hv_destroy"
    /\ UNCHANGED <<hv_n, hv_err>>
    /\ HvFrozen

\* coloring_cell_init, root cell: HV_DESTROY of region hv_n, then the next region
InitHvDestroy ==
    /\ hv_pc = "hv_destroy"
    /\ HvManage("HV_DESTROY", "cell_init", "init_failed", hv_n + 1)

\* the region whose collaborator call fails (region 1 of a cell that has none:
\* nothing is called there, so nothing fails)
FailRegs == 1 .. (IF Len(hv_cfg.regs) = 0 THEN 1 ELSE Len(hv_cfg.regs))

\* coloring_cell_create of the root cell while regions are still to be recolored.
InitCreate_before_recolor ==
    /\ hv_pc = "cell_init"
    /\ \E r \in FailRegs, f \in FailAts :
         LET S == coloring_cell_create(hv_cfg.cell, hv_tbl, hv_log, hv_cfg,
                                       [reg |-> r, call |-> f])
         IN  /\ hv_tbl' = S.tbl
             /\ hv_log' = S.log
             /\ hv_err' = S.err
             /\ hv_pc' = IF S.hang THEN "hang"
                         ELSE IF S.err # "0" THEN "init_failed" ELSE "cell_init"
    /\ hv_n' = IF hv_n > Len(hv_cfg.regs) THEN hv_n + 1 ELSE hv_n
    /\ hv_n <= Len(hv_cfg.regs)
    /\ UNCHANGED hv_mem
    /\ HvFrozen

\* coloring_cell_init: err = coloring_cell_create(cell)
InitCreate ==
    /\ hv_pc = "cell_init"
    /\ hv_cfg.cell = "root" => hv_n > Len(hv_cfg.regs)
    /\ \E r \in FailRegs, f \in FailAts :
         LET S == coloring_cell_create(hv_cfg.cell, hv_tbl, hv_log, hv_cfg,
                                       [reg |-> r, call |-> f])
         IN  /\ hv_tbl' = S.tbl
             /\ hv_log' = S.log
             /\ hv_err' = S.err
             /\ hv_pc' = IF S.hang THEN "hang"
                         ELSE IF S.err # "0" THEN "init_failed" ELSE "enabled"
    /\ UNCHANGED <<hv_n, hv_mem>>
    /\ HvFrozen

\* coloring_cell_exit: coloring_cell_destroy(cell), its result dropped
ExitDestroy ==
    /\ hv_pc \in {"enabled", "init_skipped"}
    /\ \E r \in FailRegs, f \in FailAts :
         LET S == coloring_cell_destroy(hv_cfg.cell, hv_tbl, hv_log, hv_cfg,
                                        [reg |-> r, call |-> f])
         IN  /\ hv_tbl' = S.tbl
             /\ hv_log' = S.log
             /\ hv_err' = S.err
             /\ hv_pc' = IF S.hang THEN "hang"
                         ELSE IF hv_cfg.cell = "root" THEN "cell_exit" ELSE "exited"
    /\ hv_n' = 1
    /\ UNCHANGED hv_mem
    /\ HvFrozen

\* coloring_cell_exit, root cell: HV_CREATE of region hv_n
ExitHvCreate ==
    /\ hv_pc = "cell_exit"
    /\ hv_n <= Len(hv_cfg.regs)
    /\ HvManage("HV_CREATE", "uncopy", "exit_failed", hv_n)

\* coloring_cell_exit, root cell: colored_uncopy of region hv_n
ExitUncopy ==
    /\ hv_pc = "uncopy"
    /\ LET C == colored_uncopy(hv_cfg.regs[hv_n], [mem |-> hv_mem, log |-> hv_log],
                               hv_tbl.hv, hv_cfg.ntp)
       IN  /\ hv_mem' = C.mem
           /\ hv_log' = C.log
           /\ hv_tbl' = [hv_tbl EXCEPT !.hv = C.tbl]
    /\ hv_pc' = "exit_hv_destroy"
    /\ UNCHANGED <<hv_n, hv_err>>
    /\ HvFrozen

\* coloring_cell_exit, root cell: HV_DESTROY of region hv_n, then the next region
ExitHvDestroy ==
    /\ hv_pc = "exit_hv_destroy"
    /\ HvManage("HV_DESTROY", "cell_exit", "exit_failed", hv_n + 1)

\* coloring_cell_exit, root cell: the loop is over, the handler returns
ExitReturn ==
    /\ hv_pc = "cell_exit"
    /\ hv_n > Len(hv_cfg.regs)
    /\ hv_pc' = "exited"
    /\ UNCHANGED <<hv_n, hv_err, hv_tbl, hv_mem, hv_log>>
    /\ HvFrozen

HvNext ==
    \/ InitHvCreate
    \/ InitCopy
    \/ InitHvDestroy
    \/ InitCreate
    \/ ExitDestroy
    \/ ExitHvCreate
    \/ ExitUncopy
    \/ ExitHvDestroy
    \/ ExitReturn

SpecHv == HvInit /\ [][HvNext]_vars

(***************************************************************************)
(* Claims about root-cell recoloring and the CREATE/DESTROY pair (SpecHv). *)
(***************************************************************************)
\* The frame the planner assigns to the guest page at virt, or -1.
ColoredFrame(R, virt) ==
    LET plan == manage_colored_region_frags(R, hv_cfg.way, hv_cfg.oob)
        hit  == { n \in 1 .. Len(plan.frags) :
                    /\ plan.frags[n].virt_start <= virt
                    /\ virt < plan.frags[n].virt_start + plan.frags[n].size }
    IN  IF plan.diverged \/ hit = {} THEN -1
        ELSE LET f == plan.frags[CHOOSE n \in hit : TRUE]
             IN  f.phys_start + (virt - f.virt_start)

\* Every region of the root cell has been through HV_CREATE, colored_copy and
\* HV_DESTROY.
Recolored ==
    /\ hv_cfg.cell = "root"
    /\ \/ hv_pc = "cell_init" /\ hv_n > Len(hv_cfg.regs)
       \/ hv_pc = "enabled"

\* Some colored frame of region R is also a source page of R that is copied later.
FramesOverlapSource(R) ==
    \E o1, o2 \in PagesOf(0, R.size) :
        o1 # o2 /\ ColoredFrame(R, R.virt_start + o1) = R.phys_start + o2

\* C4: once the root cell is recolored, for every page offset o < R.size the
\* colored frame backing guest address R.virt_start + o holds what physical page
\* R.phys_start + o held before recoloring started (and, once the cell's mapping
\* is installed, that frame is the one the guest address translates to).
C4_RecolorFidelity ==
    Recolored =>
        \A n \in 1 .. Len(hv_cfg.regs) :
            LET R == hv_cfg.regs[n]
            IN  \A o \in PagesOf(0, R.size) :
                    LET fr == ColoredFrame(R, R.virt_start + o)
                    IN  /\ fr \in DOMAIN hv_mem
                        /\ hv_mem[fr] = hv_snap.mem[R.phys_start + o]
                        /\ hv_pc = "enabled" =>
                               Translate(hv_tbl.root, R.virt_start + o) = fr

\* The root cell is enabled after a copy made in several slices onto frames that
\* overlap the source range, and memory has changed.
C4_Witness ==
    /\ Recolored /\ hv_pc = "enabled"
    /\ hv_cfg.regs[1].size > hv_cfg.ntp * PAGE_SIZE
    /\ FramesOverlapSource(hv_cfg.regs[1])
    /\ hv_mem # hv_snap.mem

\* C5: enable then shutdown of the root cell, with no write in between, leaves
\* every page of [R.phys_start, R.phys_start + R.size) with the content it had
\* before enable.
C5_RecolorRoundTrip ==
    (hv_cfg.cell = "root" /\ hv_pc = "exited") =>
        \A n \in 1 .. Len(hv_cfg.regs) :
            \A pg \in PagesOf(hv_cfg.regs[n].phys_start, hv_cfg.regs[n].size) :
                hv_mem[pg] = hv_snap.mem[pg]

\* The root cell has been enabled and shut down, its region was spread over
\* frames overlapping the source range, and the uncopy ran in several slices.
C5_Witness ==
    /\ hv_cfg.cell = "root" /\ hv_pc = "exited"
    /\ hv_cfg.regs[1].size > hv_cfg.ntp * PAGE_SIZE
    /\ FramesOverlapSource(hv_cfg.regs[1])
    /\ \E i \in 1 .. Len(hv_log) : hv_log[i].call = "uncopy"
    /\ hv_mem # hv_snap.mem

\* C6: for a cell's colored region that is neither a communication region nor
\* root-shared, CREATE followed by DESTROY with every collaborator call succeeding
\* leaves the cell's stage-2 mapping and the root cell's mapping as they were
\* before CREATE.
C6_CreateDestroyRoundTrip ==
    (hv_cfg.cell = "cell" /\ hv_pc = "exited" /\ hv_err = "0"
        /\ ~IsComm(hv_cfg.regs[1]))
        => /\ hv_tbl.cell = hv_snap.tbl.cell
           /\ hv_tbl.root = hv_snap.tbl.root

\* A region of several fragments was created and destroyed: frames were taken
\* from the root cell and given back, some of them outside the region's own range.
C6_Witness ==
    /\ hv_cfg.cell = "cell" /\ hv_pc = "exited" /\ hv_err = "0"
    /\ ~IsComm(hv_cfg.regs[1])
    /\ \E i, j \in 1 .. Len(hv_log) :
           /\ i < j
           /\ hv_log[i].call = "unmap_root" /\ hv_log[j].call = "remap_root"
           /\ hv_log[i].phys \in hv_cfg.rootram
    /\ Cardinality({ i \in 1 .. Len(hv_log) : hv_log[i].call = "map" }) >= 2

(***************************************************************************)
(* Driver-side validator (driver/coloring.c).                              *)
(***************************************************************************)
\* driver_next_colored(phys, col_val)
driver_next_colored(phys, col_val, coloring_mask) ==
    next_colored(phys, coloring_mask, col_val)

\* while (size > 0) of simulate_coloring; size is a whole number of pages.
RECURSIVE simulate_loop(_, _, _, _)
simulate_loop(end, size, col_val, coloring_mask) ==
    IF size <= 0 THEN [end |-> end, diverged |-> FALSE]
    ELSE LET nc == driver_next_colored(end, col_val, coloring_mask)
         IN  IF nc.diverged THEN [end |-> end, diverged |-> TRUE]
             ELSE simulate_loop(nc.ret + HV_PAGE_SIZE, size - HV_PAGE_SIZE,
                                col_val, coloring_mask)

\* simulate_coloring(start, size, col_val): end = start & HV_PAGE_MASK, then the loop
simulate_coloring(start, size, col_val, coloring_mask) ==
    simulate_loop(start - (start % HV_PAGE_SIZE), size, col_val, coloring_mask)

\* root_cell_memory(): the first region of the root cell flagged COLORED
root_cell_memory(root_regions) ==
    LET hit == { n \in 1 .. Len(root_regions) : "COLORED" \in root_regions[n].flags }
    IN  IF hit = {} THEN << >>
        ELSE << root_regions[CHOOSE n \in hit : \A m \in hit : n <= m] >>

\* col_mem_bounded with the bound taken as the pool's size alone.
col_mem_bounded_no_base(mem_to_check, root_colored_memory, coloring_mask) ==
    IF root_colored_memory = << >> THEN [err |-> "ENOMEM", hang |-> FALSE]
    ELSE LET sim == simulate_coloring(root_colored_memory[1].phys_start,
                                      mem_to_check.size, mem_to_check.colors,
                                      coloring_mask)
         IN  [err  |-> IF ~sim.diverged /\ sim.end > root_colored_memory[1].size
                       THEN "ENOMEM" ELSE "0",
              hang |-> sim.diverged]

\* col_mem_bounded(mem_to_check): [err, hang]
col_mem_bounded(mem_to_check, root_colored_memory, coloring_mask) ==
    IF root_colored_memory = << >> THEN [err |-> "ENOMEM", hang |-> FALSE]
    ELSE LET coloring_mem_bound == root_colored_memory[1].phys_start
                                       + root_colored_memory[1].size
             sim == simulate_coloring(root_colored_memory[1].phys_start,
                                      mem_to_check.size, mem_to_check.colors,
                                      coloring_mask)
         IN  [err  |-> IF ~sim.diverged /\ sim.end > coloring_mem_bound
                       THEN "ENOMEM" ELSE "0",
              hang |-> sim.diverged]

address_in_region(addr, region) ==
    addr >= region.phys_start /\ addr < region.phys_start + region.size

\* mem_root_overlap(mem): [err, hang]
mem_root_overlap(mem, root_colored_memory, coloring_mask) ==
    IF root_colored_memory = << >> THEN [err |-> "0", hang |-> FALSE]
    ELSE LET sim == simulate_coloring(mem.phys_start, mem.size, mem.colors,
                                      coloring_mask)
         IN  [err  |-> IF \/ address_in_region(mem.phys_start, root_colored_memory[1])
                          \/ (~sim.diverged
                                /\ address_in_region(sim.end, root_colored_memory[1]))
                       THEN "ENOMEM" ELSE "0",
              hang |-> sim.diverged]

\* max_color_val with one more bit than there are colors.
max_color_value_wide(coloring_mask) ==
    Pow2((coloring_mask \div HV_PAGE_SIZE) + 2) - 1

\* available_colors = (coloring_mask >> HV_PAGE_SHIFT) + 1;
\* max_color_val = (1ULL << available_colors) - 1
max_color_value(coloring_mask) ==
    Pow2((coloring_mask \div HV_PAGE_SIZE) + 1) - 1

\* The for loop of jailhouse_coloring_cell_setup from region n on (count = n - 1).
\* early = TRUE when the function returned from inside the loop.
RECURSIVE cell_setup_loop(_, _, _, _, _)
cell_setup_loop(regs, n, id, coloring_mask, root_colored_memory) ==
    LET max_color_val == max_color_value(coloring_mask)
        Return(e)   == [regs |-> regs, err |-> e, count |-> n - 1,
                        early |-> TRUE, hang |-> FALSE]
        Hang        == [regs |-> regs, err |-> "0", count |-> n - 1,
                        early |-> FALSE, hang |-> TRUE]
        Continue(r) == cell_setup_loop(r, n + 1, id, coloring_mask,
                                       root_colored_memory)
    IN  IF n > Len(regs)
        THEN [regs |-> regs, err |-> "0", count |-> Len(regs),
              early |-> FALSE, hang |-> FALSE]
        ELSE IF "COLORED_CELL" \notin regs[n].flags THEN Continue(regs)
        ELSE IF id = 0
             THEN Continue([regs EXCEPT ![n].flags = @ \ {"COLORED_CELL"}])
        ELSE IF coloring_mask = 0 THEN Return("ENOMEM")
        ELSE IF regs[n].colors = 0 THEN Return("ENOMEM")
        ELSE IF regs[n].colors > max_color_val THEN Return("ENOMEM")
        ELSE IF regs[n].phys_start # 0
             THEN LET o == mem_root_overlap(regs[n], root_colored_memory,
                                            coloring_mask)
                  IN  IF o.hang THEN Hang
                      ELSE IF o.err # "0" THEN Return("ENOMEM")
                      ELSE Continue(regs)
        ELSE IF root_colored_memory = << >> THEN Return("ENOMEM")
        ELSE LET regs1 == [regs EXCEPT
                              ![n].phys_start = root_colored_memory[1].phys_start]
                 b     == col_mem_bounded(regs1[n], root_colored_memory,
                                          coloring_mask)
             IN  IF b.hang THEN [Hang EXCEPT !.regs = regs1]
                 ELSE IF b.err # "0"
                      THEN [regs |-> regs1, err |-> b.err, count |-> n - 1,
                            early |-> FALSE, hang |-> FALSE]
                      ELSE Continue(regs1)

\* Driver inputs: the way size (one page: no coloring), the root cell's regions
\* with or without a colored pool, the cell and its regions.
MaxPool == 6

DrvWays == {HV_PAGE_SIZE} \cup WaySizes

DrvColors(way) == IF way = HV_PAGE_SIZE THEN {0, 1, 2} ELSE HvColors(way)

POOL_BASE == Pow2(20)

PoolSizes(way) ==
    { n * HV_PAGE_SIZE : n \in 1 .. MaxPool } \cup { n * way : n \in 1 .. MaxPages }

PlainRegion == MkRegion(Pow2(23), Pow2(23), HV_PAGE_SIZE, 0, {})

RootRegionLists(way) ==
    { << >>, << PlainRegion >> }
        \cup { << PlainRegion, MkRegion(POOL_BASE, POOL_BASE, ps, 0, {"COLORED"}) >>
               : ps \in PoolSizes(way) }

\* A colored region of a cell: phys_start = 0 asks for managed allocation.
Managed(size, colors) == MkRegion(0, VIRT_BASE, size, colors, {"COLORED_CELL"})

Manual(phys) == MkRegion(phys, VIRT_BASE + Pow2(22), HV_PAGE_SIZE, 1, {"COLORED_CELL"})

CellRegionLists(way) ==
    UNION { { << Managed(sz, c) >>,
              << PlainRegion, Managed(sz, c) >>,
              << Manual(Pow2(22)), Managed(sz, c) >>,
              << Manual(POOL_BASE), Managed(sz, c) >>,
              << Managed(sz, c), Managed(HV_PAGE_SIZE, 1) >> }
            : sz \in RegionSizes, c \in DrvColors(way) }

DrvInit ==
    /\ drv_pc = "load"
    /\ \E w \in DrvWays :
         \E rr \in RootRegionLists(w), i \in {0, 1}, cr \in CellRegionLists(w) :
            /\ drv_in = [way |-> w, root |-> rr, id |-> i, regs |-> cr]
            /\ drv_regs = cr
            /\ drv_desc = cr
    /\ drv_mask = 0
    /\ drv_root = << >>
    /\ drv_count = 0
    /\ drv_ret = "0"
    /\ NCIdle
    /\ RGIdle
    /\ PLIdle
    /\ HVIdle

\* jailhouse_coloring_init(llc_way_size)
jailhouse_coloring_init ==
    /\ drv_pc = "load"
    /\ drv_mask' = calculate_addr_col_mask(drv_in.way)
    /\ drv_root' = IF drv_mask' = 0 THEN drv_root
                   ELSE root_cell_memory(drv_in.root)
    /\ drv_pc' = "ready"
    /\ UNCHANGED <<drv_in, drv_regs, drv_desc, drv_count, drv_ret,
                   ncVars, plVars, hvVars, rgVars>>

\* jailhouse_coloring_cell_setup(cell, cell_desc)
jailhouse_coloring_cell_setup ==
    /\ drv_pc = "ready"
    /\ LET L == cell_setup_loop(drv_regs, 1, drv_in.id, drv_mask, drv_root)
       IN  /\ drv_regs' = L.regs
           /\ drv_count' = L.count
           /\ drv_ret' = L.err
           /\ drv_desc' = IF ~L.hang /\ ~L.early /\ L.count # 0
                          THEN L.regs ELSE drv_desc
           /\ drv_pc' = IF L.hang THEN "hang" ELSE "done"
    /\ UNCHANGED <<drv_in, drv_mask, drv_root, ncVars, plVars, hvVars, rgVars>>

DrvNext ==
    \/ jailhouse_coloring_init
    \/ jailhouse_coloring_cell_setup

SpecDrv == DrvInit /\ [][DrvNext]_vars

(***************************************************************************)
(* Claims about the validator (SpecDrv).                                   *)
(***************************************************************************)
\* Region n of a cell other than the root cell asks for managed allocation with
\* a valid bitmap, coloring is active and the loop got as far as region n.
ManagedReached(n) ==
    /\ drv_pc = "done"
    /\ drv_in.id # 0
    /\ drv_mask # 0
    /\ n \in 1 .. Len(drv_in.regs)
    /\ "COLORED_CELL" \in drv_in.regs[n].flags
    /\ drv_in.regs[n].phys_start = 0
    /\ drv_in.regs[n].colors > 0
    /\ drv_in.regs[n].colors < Pow2(ColorCount(drv_in.way))
    /\ drv_count >= n - 1

PoolOf(root_regions) ==
    { root_regions[m] : m \in { k \in 1 .. Len(root_regions) :
                                  "COLORED" \in root_regions[k].flags } }

\* C10: a managed region (phys_start = 0, valid colors) of a non-root cell is
\* rejected when the root cell declares no colored region; otherwise its
\* phys_start becomes the root colored region's base and it is accepted exactly
\* when simulate_coloring(pool base, size, colors) ends at or below
\* pool base + pool size.
C10_ManagedValidation ==
    \A n \in 1 .. Len(drv_in.regs) :
        ManagedReached(n) =>
            IF PoolOf(drv_in.root) = {}
            THEN drv_ret = "ENOMEM" /\ drv_count = n - 1
            ELSE LET pool == CHOOSE r \in PoolOf(drv_in.root) : TRUE
                     sim  == simulate_coloring(pool.phys_start, drv_in.regs[n].size,
                                               drv_in.regs[n].colors, drv_mask)
                     fits == sim.end <= pool.phys_start + pool.size
                 IN  /\ drv_regs[n].phys_start = pool.phys_start
                     /\ fits => (drv_count > n - 1
                                   /\ (n = Len(drv_in.regs) => drv_ret = "0"))
                     /\ ~fits => (drv_count = n - 1 /\ drv_ret = "ENOMEM")

\* A managed region that exactly fills the pool was accepted and rebased, and the
\* cell's descriptor received the new base.
C10_Witness ==
    /\ ManagedReached(1)
    /\ Len(drv_in.regs) = 1
    /\ PoolOf(drv_in.root) # {}
    /\ drv_ret = "0"
    /\ drv_in.regs[1].size > HV_PAGE_SIZE
    /\ drv_desc[1].phys_start = POOL_BASE
    /\ \E r \in PoolOf(drv_in.root) :
           simulate_coloring(r.phys_start, drv_in.regs[1].size,
                             drv_in.regs[1].colors, drv_mask).end
               = r.phys_start + r.size

\* The loop of jailhouse_coloring_cell_setup got as far as region n, a colored
\* region of a cell other than the root cell.
ColoredReached(n) ==
    /\ drv_pc = "done"
    /\ drv_in.id # 0
    /\ n \in 1 .. Len(drv_in.regs)
    /\ "COLORED_CELL" \in drv_in.regs[n].flags
    /\ drv_count >= n - 1

ValidColors(colors, way) == colors > 0 /\ colors < Pow2(ColorCount(way))

\* What is left to refuse a region whose colors are valid: the overlap test of a
\* manual region, the missing pool or the bound test of a managed one.
OtherRefusal(R) ==
    IF R.phys_start # 0
    THEN mem_root_overlap(R, drv_root, drv_mask).err # "0"
    ELSE \/ drv_root = << >>
         \/ col_mem_bounded([R EXCEPT !.phys_start = drv_root[1].phys_start],
                            drv_root, drv_mask).err # "0"

\* C11: for every colored region of a non-root cell, the setup returns an error
\* when colors = 0 or colors >= 2^color_count, and for any colored region when
\* the coloring mask is 0; for colors in 1 .. 2^color_count - 1 (coloring active)
\* the region is refused only by the overlap, pool or bound tests.
C11_ColorValueValidation ==
    \A n \in 1 .. Len(drv_in.regs) :
        ColoredReached(n) =>
            LET R == drv_in.regs[n]
            IN  IF drv_mask = 0 \/ ~ValidColors(R.colors, drv_in.way)
                THEN drv_ret = "ENOMEM" /\ drv_count = n - 1
                ELSE drv_count = n - 1 => OtherRefusal(R)

\* On 16 colors a region with colors = 0x10000 was refused.
C11_Witness ==
    /\ ColoredReached(1)
    /\ drv_in.way = Pow2(16)
    /\ drv_in.regs[1].colors = Pow2(16)
    /\ drv_ret = "ENOMEM"
    /\ drv_root # << >>

(***************************************************************************)
(* Manual colored regions placed around the root colored region            *)
(* (SpecManual): the same two driver calls on other configurations.        *)
(***************************************************************************)
ManualStarts ==
    { POOL_BASE - n * HV_PAGE_SIZE : n \in 1 .. (MaxPages + 1) }
        \cup { POOL_BASE + n * HV_PAGE_SIZE : n \in 0 .. MaxPool }

ManualAt(phys, size, colors) ==
    MkRegion(phys, VIRT_BASE, size, colors, {"COLORED_CELL"})

ManualPools(way) == { n * HV_PAGE_SIZE : n \in 1 .. MaxPool } \cup { way }

ManualInit ==
    /\ drv_pc = "load"
    /\ \E w \in WaySizes :
         \E rr \in { << PlainRegion >> }
                     \cup { << PlainRegion,
                               MkRegion(POOL_BASE, POOL_BASE, ps, 0, {"COLORED"}) >>
                            : ps \in ManualPools(w) },
            ph \in ManualStarts, sz \in RegionSizes, c \in DrvColors(w) :
            /\ drv_in = [way |-> w, root |-> rr, id |-> 1,
                         regs |-> << ManualAt(ph, sz, c) >>]
            /\ drv_regs = << ManualAt(ph, sz, c) >>
            /\ drv_desc = << ManualAt(ph, sz, c) >>
    /\ drv_mask = 0
    /\ drv_root = << >>
    /\ drv_count = 0
    /\ drv_ret = "0"
    /\ NCIdle
    /\ RGIdle
    /\ PLIdle
    /\ HVIdle

SpecManual == ManualInit /\ [][DrvNext]_vars

\* The colored physical extent [phys_start, simulated end) of region R shares an
\* address with the root colored region.
ExtentOverlapsPool(R) ==
    /\ drv_root # << >>
    /\ LET sim == simulate_coloring(R.phys_start, R.size, R.colors, drv_mask)
       IN  /\ R.phys_start < drv_root[1].phys_start + drv_root[1].size
           /\ drv_root[1].phys_start < sim.end

\* C12: with a root colored region declared, every manual colored region
\* (phys_start # 0, valid colors) of a non-root cell whose colored extent shares
\* an address with the root colored region is refused, wherever the two ranges
\* lie relative to each other.
C12_ManualOverlap ==
    \A n \in 1 .. Len(drv_in.regs) :
        (ColoredReached(n) /\ drv_mask # 0
            /\ drv_in.regs[n].phys_start # 0
            /\ ValidColors(drv_in.regs[n].colors, drv_in.way)
            /\ ExtentOverlapsPool(drv_in.regs[n]))
            => (drv_ret = "ENOMEM" /\ drv_count = n - 1)

(***************************************************************************)
(* Operations on a created cell (SpecOps): a cell with two colored regions *)
(* is created, then loaded, started or destroyed.                          *)
(***************************************************************************)
OpsConfigs ==
    { [way |-> w, ntp |-> 1, oob |-> FALSE, cell |-> "cell",
       regs |-> << MkRegion(POOL_BASE, VIRT_BASE, sz, c, f1),
                   MkRegion(POOL_BASE + Pow2(22), VIRT_BASE + Pow2(22),
                            2 * PAGE_SIZE, 1, f2) >>,
       wide |-> TRUE]
      : w \in WaySizes, sz \in RegionSizes,
        c \in UNION { HvColors(x) : x \in WaySizes },
        f1 \in { {}, {"LOADABLE"} }, f2 \in { {}, {"LOADABLE"} } }

OpsInit ==
    /\ \E k \in { x \in OpsConfigs : x.regs[1].colors \in HvColors(x.way) } :
         /\ hv_cfg = [way |-> k.way, ntp |-> k.ntp, oob |-> k.oob,
                      regs |-> k.regs, cell |-> k.cell, rootram |-> RootRamOf(k),
                      level |-> UNIFIED_LEVEL,
                      smmu_map_f |-> FALSE, smmu_unmap_f |-> FALSE]
         /\ hv_mem = [ pg \in MemPagesOf(k.regs, k.way, k.oob) |-> pg ]
         /\ hv_tbl = [hv   |-> {},
                      root |-> { <<q, q>> : q \in RootRamOf(k) },
                      cell |-> { <<Pow2(26), Pow2(26)>> },
                      smmu |-> {}]
    /\ hv_pc = "cell_init"
    /\ hv_n = 1
    /\ hv_err = "0"
    /\ hv_log = << >>
    /\ hv_snap = [tbl |-> hv_tbl, mem |-> hv_mem]
    /\ NCIdle
    /\ RGIdle
    /\ PLIdle
    /\ DRVIdle

\* for_each_mem_region(mem, cell->config, n): the memory regions of the
\* configuration, the colored ones not among them.  A cell has one page of RAM;
\* the root cell has its RAM, one region per contiguous run, mapped 1:1.
mem_regions(cfg) ==
    LET RECURSIVE RamRegions(_)
        RamRegions(pages) ==
            IF pages = {} THEN << >>
            ELSE LET lo == CHOOSE q \in pages : \A x \in pages : q <= x
                     n  == CHOOSE k \in 1 .. Cardinality(pages) :
                               /\ PagesOf(lo, k * PAGE_SIZE) \subseteq pages
                               /\ lo + k * PAGE_SIZE \notin pages
                 IN  << MkRegion(lo, lo, n * PAGE_SIZE, 0, {}) >>
                         \o RamRegions(pages \ PagesOf(lo, n * PAGE_SIZE))
    IN  IF cfg.cell = "root" THEN RamRegions(cfg.rootram)
        ELSE << MkRegion(Pow2(26), Pow2(26), PAGE_SIZE, 0, {}) >>

\* arm_cell_dcaches_flush before it calls coloring_cell_flush: every memory
\* region that is neither I/O nor the communication region is flushed in
\* slices through the scratch mapping.
RECURSIVE flush_mem_regions(_, _, _)
flush_mem_regions(S, regs, n) ==
    IF n > Len(regs) THEN S
    ELSE flush_mem_regions(IF regs[n].flags \cap {"IO", "COMM_REGION"} # {} THEN S
                           ELSE dcache_loop(S, regs[n].phys_start, regs[n].size),
                           regs, n + 1)

\* for_each_mem_region of arm_smmuv2_cell_init: arm_smmu_map_memory_region for
\* every memory region; the function returns -EINVAL when a call fails (the
\* call for region at).
RECURSIVE smmu_map_mem_regions(_, _, _, _, _)
smmu_map_mem_regions(S, cell, regs, n, at) ==
    IF n > Len(regs) THEN S
    ELSE IF n = at
         THEN Failed(S, "smmu_map_region", mapped_region(cell, regs[n]), "EINVAL")
    ELSE smmu_map_mem_regions(
             [Called(S, "smmu_map_region", mapped_region(cell, regs[n])) EXCEPT
                 !.tbl.smmu = arm_smmu_map_memory_region(cell, @, regs[n])],
             cell, regs, n + 1, at)

\* The step of arm_smmuv2_cell_init that fails, if any: page_alloc of the root
\* table, the mapping of memory region at, the search for a free context bank
\* (-ENODEV), arm_smmu_setup_stream_matching (-EINVAL); arm_smmu_init_cb
\* returns 0 always.
UnitSteps(cfg) ==
    { [step |-> st, at |-> 0]
      : st \in {"none", "page_alloc", "context_bank", "stream_matching"} }
        \cup { [step |-> "mem_region", at |-> n] : n \in 1 .. Len(mem_regions(cfg)) }

\* What a handler does before it calls __coloring_cell_apply_to_col_mem.
\* arm_smmuv2_cell_init: a fresh root table for cell->arch.iomm, the memory
\* regions mapped into it, then col_ops.smmu_map_f installed if it is NULL.
\* arm_cell_dcaches_flush: the flush of the memory regions.
before_apply(via, u) ==
    CASE via = "arm_smmuv2_cell_init" ->
             LET S0 == [tbl |-> [hv_tbl EXCEPT !.smmu = {}], err |-> "0", calls |-> 0,
                        log |-> hv_log, stop |-> FALSE]
                 S1 == IF u.step = "page_alloc" THEN [S0 EXCEPT !.err = "EINVAL"]
                       ELSE smmu_map_mem_regions(S0, hv_cfg.cell, mem_regions(hv_cfg),
                                                 1, u.at)
             IN  [tbl |-> S1.tbl, log |-> S1.log, err |-> S1.err,
                  cfg |-> IF S1.err = "0" THEN [hv_cfg EXCEPT !.smmu_map_f = TRUE]
                          ELSE hv_cfg]
      [] via = "arm_cell_dcaches_flush" ->
             LET S1 == flush_mem_regions([tbl |-> hv_tbl, log |-> hv_log,
                                          ntp |-> hv_cfg.ntp],
                                         mem_regions(hv_cfg), 1)
             IN  [tbl |-> S1.tbl, log |-> S1.log, err |-> "0", cfg |-> hv_cfg]
      [] OTHER -> [tbl |-> hv_tbl, log |-> hv_log, err |-> "0", cfg |-> hv_cfg]

\* __coloring_cell_apply_to_col_mem(cell, type, extra) on a created cell, called
\* directly (via = "direct") or by the handler via.  arm_smmuv2_cell_init
\* returns -EINVAL for any error of coloring_cell_smmu_create, then takes a
\* context bank and sets up stream matching; arm_cell_dcaches_flush returns
\* nothing, hv_err is what coloring_cell_flush returned to it.
CellApplyFrom(type, ok, bad, via) ==
    \E r \in FailRegs, f \in FailAts, u \in UnitSteps(hv_cfg) :
        /\ via # "arm_smmuv2_cell_init" => u.step = "none"
        /\ u.step # "none" => (r = 1 /\ f = 0)
        /\ LET ret(err) ==
                   IF via # "arm_smmuv2_cell_init" THEN err
                   ELSE IF err # "0" THEN "EINVAL"
                   ELSE IF u.step = "context_bank" THEN "ENODEV"
                   ELSE IF u.step = "stream_matching" THEN "EINVAL"
                   ELSE "0"
               returned(S, cfg) ==
                   /\ hv_cfg' = cfg
                   /\ hv_tbl' = S.tbl
                   /\ hv_log' = S.log
                   /\ hv_err' = ret(S.err)
                   /\ hv_pc' = IF S.hang THEN "hang"
                               ELSE IF ret(S.err) # "0" THEN bad ELSE ok
                   /\ UNCHANGED <<hv_n, hv_mem, hv_snap, ncVars, plVars, drvVars,
                                  rgVars>>
               apply(P) ==
                   returned(IF P.err # "0"
                            THEN [tbl |-> P.tbl, err |-> P.err, log |-> P.log,
                                  hang |-> FALSE]
                            ELSE coloring_cell_apply_to_col_mem(
                                     hv_cfg.cell, type, P.tbl, P.log, P.cfg,
                                     [reg |-> r, call |-> f]),
                            P.cfg)
           IN  apply(before_apply(via, u))

\* __coloring_cell_apply_to_col_mem(cell, type, NULL) called directly
CellApply(type, ok, bad) ==
    \E r \in FailRegs, f \in FailAts :
        LET returned(S) ==
                /\ hv_tbl' = S.tbl
                /\ hv_log' = S.log
                /\ hv_err' = S.err
                /\ hv_pc' = IF S.hang THEN "hang" ELSE IF S.err # "0" THEN bad ELSE ok
                /\ UNCHANGED <<hv_n, hv_mem>>
                /\ HvFrozen
        IN  returned(coloring_cell_apply_to_col_mem(hv_cfg.cell, type, hv_tbl, hv_log,
                                                    hv_cfg, [reg |-> r, call |-> f]))

\* the cell's image is loaded: LOAD on every colored region
CellLoad ==
    /\ hv_pc = "enabled"
    /\ hv_cfg.cell # "root"
    /\ CellApply("LOAD", "loaded", "load_failed")

\* the cell is started: START on every colored region
CellStart ==
    /\ hv_pc \in {"enabled", "loaded"}
    /\ hv_cfg.cell # "root"
    /\ CellApply("START", "started", "start_failed")

OpsNext ==
    \/ InitCreate
    \/ CellLoad
    \/ CellStart
    \/ ExitDestroy

SpecOps == OpsInit /\ [][OpsNext]_vars

\* The calls of the given name logged for the guest range of region R.
CallsFor(name, R) ==
    { i \in 1 .. Len(hv_log) :
        /\ hv_log[i].call = name
        /\ hv_log[i].virt >= R.virt_start + ROOT_MAP_OFFSET
        /\ hv_log[i].virt < R.virt_start + ROOT_MAP_OFFSET + Pow2(22) }

\* After the operation whose call is name: the first region lacks the loadable
\* flag, so it got no call, and the operation went on to the second region or,
\* when that one is not loadable either, returned 0.
SkippedAndWentOn(name) ==
    LET R1 == hv_cfg.regs[1]
        R2 == hv_cfg.regs[2]
    IN  "LOADABLE" \notin R1.flags =>
            /\ CallsFor(name, R1) = {}
            /\ "LOADABLE" \in R2.flags => CallsFor(name, R2) # {}
            /\ "LOADABLE" \notin R2.flags => hv_err = "0"

\* C13: LOAD or START applied to a cell with a colored region that lacks the
\* loadable flag makes no map or unmap call for that region and reports success
\* for it, so the remaining colored regions are still processed and the
\* operation does not fail.
C13_LoadStartSkip ==
    /\ hv_pc \in {"loaded", "load_failed"} => SkippedAndWentOn("load_map")
    /\ hv_pc \in {"started", "start_failed"} => SkippedAndWentOn("start_unmap")

\* The fragments <<region, index>> of the cell that, after the teardown, are
\* still mapped in the cell or whose root RAM frames the root cell lacks.
LeftBehind ==
    { nm \in UNION { { <<n, m>> :
                         m \in 1 .. Len(manage_colored_region_frags(
                                           hv_cfg.regs[n], hv_cfg.way,
                                           hv_cfg.oob).frags) }
                     : n \in 1 .. Len(hv_cfg.regs) } :
        LET f == manage_colored_region_frags(hv_cfg.regs[nm[1]], hv_cfg.way,
                                             hv_cfg.oob).frags[nm[2]]
        IN  \/ \E v \in PagesOf(f.virt_start, f.size) :
                   Translate(hv_tbl.cell, v) # -1
            \/ \E q \in PagesOf(f.phys_start, f.size) \cap hv_cfg.rootram :
                   <<q, q>> \notin hv_tbl.root }

\* C14: when a collaborator call fails on some fragment during DESTROY, the
\* teardown goes on: every other fragment of that region and of the cell's other
\* regions is unmapped from the cell and given back to the root cell (at most
\* the fragment of the failed call is left behind).
C14_DestroyProgress ==
    (hv_cfg.cell = "cell" /\ hv_pc = "exited")
        => Cardinality(LeftBehind) <= 1

\* The hypervisor-local colored mappings (those HV_CREATE installs).
ColoredViews ==
    { pr \in hv_tbl.hv :
        pr[1] >= ROOT_MAP_OFFSET /\ pr[1] < TEMPORARY_MAPPING_BASE }

\* C15: whenever coloring_cell_init for the root cell returns an error, the root
\* RAM contents are in the original identity layout (every page of every colored
\* region holds what it held before) and no hypervisor-local colored mapping
\* installed by HV_CREATE remains.
C15_FailedEnableReverted ==
    (hv_cfg.cell = "root" /\ hv_pc = "init_failed")
        => /\ \A n \in 1 .. Len(hv_cfg.regs) :
                \A pg \in PagesOf(hv_cfg.regs[n].phys_start, hv_cfg.regs[n].size) :
                    hv_mem[pg] = hv_snap.mem[pg]
           /\ ColoredViews = {}


(***************************************************************************)
(* A platform with no unified cache level.  coloring_cache_detect leaves   *)
(* cache.level at -1 and cache.way_size at its static value 0, so           *)
(* fragment_unit_offset is 0; coloring_init then skips the unit.            *)
(***************************************************************************)
NoCacheConfigs ==
    { [way |-> 0, ntp |-> 1, oob |-> 0, regs |-> rs, cell |-> c, wide |-> FALSE]
      : c \in {"root", "cell"},
        rs \in {<< >>}
               \cup { << MkRegion(POOL_BASE, VIRT_BASE, sz, col, fl) >>
                      : sz \in RegionSizes, col \in HvColors(Pow2(14)),
                        fl \in { {}, {"LOADABLE"} } }
               \cup { << MkRegion(POOL_BASE, VIRT_BASE, sz, col, {}),
                         MkRegion(POOL_BASE + Pow2(22), VIRT_BASE + Pow2(22),
                                  2 * PAGE_SIZE, 1, {"LOADABLE"}) >>
                      : sz \in RegionSizes, col \in HvColors(Pow2(14)) } }

NoCacheRam(k) ==
    UNION { PagesOf(k.regs[n].phys_start, k.regs[n].size) : n \in 1 .. Len(k.regs) }

NoCacheInit ==
    /\ \E k \in NoCacheConfigs :
         /\ hv_cfg = [way |-> k.way, ntp |-> k.ntp, oob |-> k.oob,
                      regs |-> k.regs, cell |-> k.cell, rootram |-> NoCacheRam(k),
                      level |-> NO_CACHE_LEVEL,
                      smmu_map_f |-> FALSE, smmu_unmap_f |-> FALSE]
         /\ hv_mem = [ pg \in NoCacheRam(k) |-> pg ]
         /\ hv_tbl = [hv   |-> {},
                      root |-> { <<q, q>> : q \in NoCacheRam(k) },
                      cell |-> { <<Pow2(26), Pow2(26)>> },
                      smmu |-> {}]
         /\ hv_pc = IF k.cell = "root" THEN "unit_init" ELSE "cell_init"
    /\ hv_n = 1
    /\ hv_err = "0"
    /\ hv_log = << >>
    /\ hv_snap = [tbl |-> hv_tbl, mem |-> hv_mem]
    /\ NCIdle
    /\ RGIdle
    /\ PLIdle
    /\ DRVIdle

\* coloring_init: ret = coloring_cache_detect(); if (ret) return 0;
\* return coloring_cell_init(&root_cell)
coloring_init ==
    /\ hv_pc = "unit_init"
    /\ hv_pc' = IF hv_cfg.level = NO_CACHE_LEVEL THEN "init_skipped" ELSE "cell_init"
    /\ hv_err' = "0"
    /\ UNCHANGED <<hv_n, hv_tbl, hv_mem, hv_log>>
    /\ HvFrozen

NoCacheNext ==
    \/ coloring_init
    \/ InitCreate
    \/ CellLoad
    \/ CellStart
    \/ ExitDestroy
    \/ ExitHvCreate
    \/ ExitReturn

SpecNoCache == NoCacheInit /\ [][NoCacheNext]_vars

\* the positions at which an operation has returned success / an error
ReturnedSuccess == {"init_skipped", "enabled", "loaded", "started"}
ReturnedError   == {"init_failed", "load_failed", "start_failed"}

\* C16: with no unified cache level, an operation on a cell that declares a
\* colored region (hypervisor enable for such a root cell included) returns an
\* error and changes no mapping, and an operation on a cell without colored
\* regions succeeds and changes nothing.
C16_NoUnifiedCache ==
    hv_cfg.level = NO_CACHE_LEVEL =>
        /\ hv_pc # "hang" => hv_tbl = hv_snap.tbl /\ hv_mem = hv_snap.mem
        /\ Len(hv_cfg.regs) > 0 => hv_pc \notin ReturnedSuccess
        /\ Len(hv_cfg.regs) = 0 =>
              /\ hv_pc \notin ReturnedError
              /\ hv_pc \in ReturnedSuccess => hv_err = "0"

(***************************************************************************)
(* Regions that carry a rebase_offset (SpecRebase).  The region descriptor *)
(* of a configuration has the field; __manage_colored_region reads         *)
(* colors and memory.{phys_start, virt_start, size, flags} of it.          *)
(***************************************************************************)
RebaseOffsets == {0, Pow2(21)}

RebaseInit ==
    /\ pl_pc = "plan"
    /\ pl_way \in WaySizes
    /\ pl_oob = FALSE
    /\ \E ph \in PhysStarts, sz \in RegionSizes, c \in PairColors(pl_way),
          rb \in RebaseOffsets :
           pl_regs = << [phys_start |-> ph, virt_start |-> VIRT_BASE, size |-> sz,
                         colors |-> c, flags |-> {}, rebase_offset |-> rb] >>
    /\ pl_frags = << >>
    /\ NCIdle
    /\ RGIdle
    /\ HVIdle
    /\ DRVIdle

SpecRebase == RebaseInit /\ [][PlanNext]_vars

\* The first indices of the color ranges of a bitmap, in the order of the walk.
RECURSIVE RangeStartsFrom(_, _)
RangeStartsFrom(ranges, k) ==
    IF k >= Len(ranges) THEN << >>
    ELSE IF ranges[k + 1] = -1 THEN RangeStartsFrom(ranges, k + 2)
         ELSE <<ranges[k + 1]>> \o RangeStartsFrom(ranges, k + 2)

RangeStarts(R, way) ==
    RangeStartsFrom(ranges_in_mask(color_bits(R.colors, way \div PAGE_SIZE),
                                   way \div PAGE_SIZE, FALSE), 0)

\* C17: every fragment emitted for region R in stride r for the color range that
\* starts at index i has physical address
\* R.phys_start + i * page_size + r * way_size + R.rebase_offset.
C17_RebaseApplied ==
    pl_pc = "done" =>
        \A n \in 1 .. Len(pl_regs) :
            LET R      == pl_regs[n]
                starts == RangeStarts(R, pl_way)
                frags  == pl_frags[n].frags
            IN  \A m \in 1 .. Len(frags) :
                    LET r == (m - 1) \div Len(starts)
                        i == starts[((m - 1) % Len(starts)) + 1]
                    IN  frags[m].phys_start =
                            R.phys_start + i * PAGE_SIZE + r * pl_way + R.rebase_offset

(***************************************************************************)
(* Range extractor harness (SpecRanges): ranges_in_mask on every bool      *)
(* array of up to MaxMask elements, with either value at mask[size].       *)
(***************************************************************************)
MaxMask == 6

RECURSIVE Masks(_)
Masks(n) ==
    IF n = 0 THEN { << >> }
    ELSE { Append(m, b) : m \in Masks(n - 1), b \in BOOLEAN }

RangesInit ==
    /\ rg_pc = "call"
    /\ \E n \in 0 .. MaxMask : rg_mask \in Masks(n)
    /\ rg_oob \in BOOLEAN
    /\ rg_values = << >>
    /\ NCIdle
    /\ PLIdle
    /\ HVIdle
    /\ DRVIdle

RangesCall ==
    /\ rg_pc = "call"
    /\ rg_values' = ranges_in_mask(rg_mask, Len(rg_mask), rg_oob)
    /\ rg_pc' = "done"
    /\ UNCHANGED <<rg_mask, rg_oob, ncVars, plVars, hvVars, drvVars>>

RangesNext == RangesCall

SpecRanges == RangesInit /\ [][RangesNext]_vars

\* The indices k of the code at which mask[k] is set.
SetIndices == { k \in 0 .. (Len(rg_mask) - 1) : rg_mask[k + 1] }

\* The number of pairs written before the first -1.
PairsWritten ==
    Cardinality({ t \in 1 .. Len(rg_mask) : rg_values[2 * t - 1] # -1 })

\* C18: ranges_in_mask writes pairs (i, j) that are exactly the maximal runs of
\* set entries of the mask, ascending and disjoint, never adjacent, followed
\* only by -1 entries, and the union of the ranges is the set of set indices.
C18_RangeExtractor ==
    rg_pc = "done" =>
        LET n == Len(rg_mask)
            q == PairsWritten
            I(t) == rg_values[2 * t - 1]
            J(t) == rg_values[2 * t]
        IN  /\ Len(rg_values) = 2 * n
            /\ \A k \in 1 .. (2 * n) : (rg_values[k] = -1) <=> (k > 2 * q)
            /\ \A t \in 1 .. q :
                  /\ 0 <= I(t) /\ I(t) <= J(t) /\ J(t) < n
                  /\ \A k \in I(t) .. J(t) : rg_mask[k + 1]
                  /\ I(t) = 0 \/ ~rg_mask[I(t)]
                  /\ J(t) = n - 1 \/ ~rg_mask[J(t) + 2]
            /\ \A t \in 1 .. (q - 1) : I(t + 1) > J(t) + 1
            /\ UNION { I(t) .. J(t) : t \in 1 .. q } = SetIndices

\* two runs, the second one ending at the last element, with mask[size] read as 1
C18_Witness ==
    /\ rg_pc = "done"
    /\ rg_oob
    /\ rg_mask = <<TRUE, TRUE, FALSE, TRUE>>
    /\ rg_values = <<0, 1, 3, 3, -1, -1, -1, -1>>

(***************************************************************************)
(* Mask derivation harness (SpecMask): jailhouse_coloring_init on every    *)
(* power-of-two llc_way_size from 2 pages up to 2^MaxWayShift bytes.       *)
(***************************************************************************)
MaxWayShift == 29

MaskShifts == (HV_PAGE_SHIFT + 1) .. MaxWayShift

MaskInit ==
    /\ drv_pc = "load"
    /\ \E k \in MaskShifts, rr \in RootRegionLists(Pow2(HV_PAGE_SHIFT + 1)) :
            drv_in = [way |-> Pow2(k), root |-> rr, id |-> 0, regs |-> << >>]
    /\ drv_regs = << >>
    /\ drv_desc = << >>
    /\ drv_mask = 0
    /\ drv_root = << >>
    /\ drv_count = 0
    /\ drv_ret = "0"
    /\ NCIdle
    /\ RGIdle
    /\ PLIdle
    /\ HVIdle

MaskNext == jailhouse_coloring_init

SpecMask == MaskInit /\ [][MaskNext]_vars

\* C19: for way_size = 2^k, k > 12, the coloring mask has exactly the bits
\* 12 .. k-1 (0xf000 for way_size 65536): none below page_shift, none at or
\* above log2(way_size), and (mask >> page_shift) + 1 = way_size / page_size.
C19_MaskDerivation ==
    drv_pc = "ready" =>
        \A k \in MaskShifts :
            drv_in.way = Pow2(k) =>
                /\ \A b \in 0 .. MaxWayShift :
                       (BitAt(drv_mask, b) = 1) <=> (HV_PAGE_SHIFT <= b /\ b < k)
                /\ drv_mask < Pow2(k)
                /\ (drv_mask \div Pow2(HV_PAGE_SHIFT)) + 1 = drv_in.way \div HV_PAGE_SIZE
                /\ k = 16 => drv_mask = 61440

C19_Witness ==
    /\ drv_pc = "ready"
    /\ drv_in.way = 65536
    /\ drv_mask = 61440

(***************************************************************************)
(* The steps of one colored_copy (SpecHv), read from the log in the state  *)
(* that follows it: the last R.size / PAGE_SIZE entries, one per memcpy.   *)
(***************************************************************************)
CopyDone == hv_cfg.cell = "root" /\ hv_pc = "hv_destroy"

CopyPages == hv_cfg.regs[hv_n].size \div PAGE_SIZE

CopyStep(t) == hv_log[Len(hv_log) - CopyPages + t]

\* the frame step t reads, and the frame it writes through the colored mapping
FrameRead(t) == CopyStep(t).phys

FrameWritten(t) == Translate(hv_tbl.hv, ROOT_MAP_OFFSET + CopyStep(t).virt)

SourceRange == PagesOf(hv_cfg.regs[hv_n].phys_start, hv_cfg.regs[hv_n].size)

\* C20: colored_copy reads the source pages in descending address order (slices
\* descending, pages of a slice descending), and at every step the frame it
\* writes is the frame it reads, or a frame of the source range that an earlier
\* step has read, or a frame outside the source range.
C20_NoUnreadOverwrite ==
    CopyDone =>
        LET R == hv_cfg.regs[hv_n]
        IN  \A t \in 1 .. CopyPages :
                /\ CopyStep(t).call = "copy"
                /\ FrameRead(t) = R.phys_start + R.size - t * PAGE_SIZE
                /\ CopyStep(t).virt = R.virt_start + R.size - t * PAGE_SIZE
                /\ FrameWritten(t) \in DOMAIN hv_mem
                /\ \/ FrameWritten(t) = FrameRead(t)
                   \/ FrameWritten(t) \notin SourceRange
                   \/ \E u \in 1 .. (t - 1) : FrameRead(u) = FrameWritten(t)

\* a copy in several slices in which some step writes a frame of the source
\* range other than the one it reads
C20_Witness ==
    /\ CopyDone
    /\ hv_cfg.regs[hv_n].size > hv_cfg.ntp * PAGE_SIZE
    /\ hv_cfg.ntp > 1
    /\ \E t \in 1 .. CopyPages :
          /\ FrameWritten(t) # FrameRead(t)
          /\ FrameWritten(t) \in SourceRange
    /\ hv_mem # hv_snap.mem

(***************************************************************************)
(* Claims about the arms of the region operator (SpecHv, SpecOps).         *)
(***************************************************************************)
\* The fragments of the cell's first colored region.
FirstFrags == manage_colored_region_frags(hv_cfg.regs[1], hv_cfg.way, hv_cfg.oob).frags

CellCreated == hv_cfg.cell = "cell" /\ hv_pc = "enabled" /\ hv_err = "0"

\* The frames some mapping of the root cell still points to.
RootFrames == { pr[2] : pr \in hv_tbl.root }

\* C21: for a region that is neither a communication region nor root-shared,
\* CREATE calls unmap-from-root for a fragment before it maps that fragment into
\* the cell, and after a successful CREATE every frame of every fragment is
\* mapped in the cell at its fragment virtual address and none is mapped in the
\* root cell; for a comm or root-shared region the root mapping is untouched.
C21_CreateStealsFirst ==
    hv_cfg.cell = "cell" =>
        /\ \A j \in 1 .. Len(hv_log) :
              (hv_log[j].call = "map" /\ ~IsComm(hv_cfg.regs[1]))
                  => /\ j > 1
                     /\ hv_log[j - 1] = [hv_log[j] EXCEPT !.call = "unmap_root",
                                                           !.ok = TRUE]
        /\ (CellCreated /\ ~IsComm(hv_cfg.regs[1])) =>
              \A n \in 1 .. Len(FirstFrags) :
                  \A o \in PagesOf(0, FirstFrags[n].size) :
                      /\ Translate(hv_tbl.cell, FirstFrags[n].virt_start + o)
                             = FirstFrags[n].phys_start + o
                      /\ FirstFrags[n].phys_start + o \notin RootFrames
        /\ (IsComm(hv_cfg.regs[1]) /\ hv_pc \in {"enabled", "init_failed"})
              => hv_tbl.root = hv_snap.tbl.root

\* a region of several fragments was created from frames the root cell held
C21_Witness ==
    /\ CellCreated
    /\ ~IsComm(hv_cfg.regs[1])
    /\ Len(FirstFrags) >= 2
    /\ \A n \in 1 .. Len(FirstFrags) :
          FirstFrags[n].phys_start \in { pr[2] : pr \in hv_snap.tbl.root }

(***************************************************************************)
(* Every arm of the region operator (SpecArms): a cell with two colored    *)
(* regions is created and then loaded, started, flushed, given SMMU        *)
(* mappings or destroyed, and a root cell with two colored regions is      *)
(* enabled and shut down.  col_ops.smmu_map_f is set once an SMMUv2 unit   *)
(* has initialised; nothing in the sources sets col_ops.smmu_unmap_f.      *)
(***************************************************************************)
ArmsRegions(cl, sz, c, f1) ==
    IF cl = "root"
    THEN << MkRegion(POOL_BASE, POOL_BASE, sz, c, {}),
            MkRegion(POOL_BASE + Pow2(22), POOL_BASE + Pow2(22), 2 * PAGE_SIZE, 1, {}) >>
    ELSE << MkRegion(POOL_BASE, VIRT_BASE, sz, c, f1),
            MkRegion(POOL_BASE + Pow2(22), VIRT_BASE + Pow2(22), 2 * PAGE_SIZE, 1,
                     {"LOADABLE"}) >>

ArmsConfigs ==
    { [way |-> w, ntp |-> t, oob |-> FALSE, cell |-> "cell",
       regs |-> ArmsRegions("cell", sz, c, f1), wide |-> TRUE, hook |-> h]
      : w \in WaySizes, t \in 1 .. MaxTemp, sz \in RegionSizes,
        c \in {0, 1, 3, 6, 10, 15},
        f1 \in { {}, {"LOADABLE"}, {"COMM_REGION", "LOADABLE"} }, h \in BOOLEAN }
    \cup
    { [way |-> w, ntp |-> t, oob |-> FALSE, cell |-> "root",
       regs |-> ArmsRegions("root", sz, c, {}), wide |-> TRUE, hook |-> FALSE]
      : w \in WaySizes, t \in 1 .. MaxTemp, sz \in RegionSizes,
        c \in {1, 6, 15} }

ArmsInit ==
    /\ \E k \in ArmsConfigs :
         /\ hv_cfg = [way |-> k.way, ntp |-> k.ntp, oob |-> k.oob,
                      regs |-> k.regs, cell |-> k.cell, rootram |-> RootRamOf(k),
                      level |-> UNIFIED_LEVEL,
                      smmu_map_f |-> k.hook, smmu_unmap_f |-> FALSE]
         /\ hv_mem = [ pg \in MemPagesOf(k.regs, k.way, k.oob) |-> pg ]
         /\ hv_tbl = [hv   |-> {},
                      root |-> { <<q, q>> : q \in RootRamOf(k) },
                      cell |-> { <<Pow2(26), Pow2(26)>> },
                      smmu |-> {}]
    /\ hv_pc = "cell_init"
    /\ hv_n = 1
    /\ hv_err = "0"
    /\ hv_log = << >>
    /\ hv_snap = [tbl |-> hv_tbl, mem |-> hv_mem]
    /\ NCIdle
    /\ RGIdle
    /\ PLIdle
    /\ DRVIdle

\* arm_smmuv2_cell_init(cell) on a platform with an SMMUv2, for the root cell
\* (from arm_smmuv2_init) and for every other cell.
arm_smmuv2_cell_init ==
    [type |-> "SMMU_CREATE", from |-> {"enabled"}, root |-> TRUE,
     via |-> "arm_smmuv2_cell_init",
     ok |-> "smmu_created", bad |-> "smmu_init_failed"]

\* arm_cell_dcaches_flush(cell, flush), called for any cell, the root cell
\* included.
arm_cell_dcaches_flush ==
    [type |-> "DCACHE", from |-> {"enabled", "loaded"}, root |-> TRUE,
     via |-> "arm_cell_dcaches_flush",
     ok |-> "flushed", bad |-> "flush_failed"]

\* The operations applied to a created cell through
\* __coloring_cell_apply_to_col_mem(cell, type, extra): the position they start
\* from and the positions they end in on success and on an error.
\* __coloring_cell_apply_to_col_mem has no test of the cell; loading and
\* starting are done to non-root cells (root |-> FALSE).
CellOps ==
    { [type |-> "LOAD", from |-> {"enabled"}, root |-> FALSE, via |-> "direct",
       ok |-> "loaded", bad |-> "load_failed"],
      [type |-> "START", from |-> {"enabled", "loaded"}, root |-> FALSE,
       via |-> "direct", ok |-> "started", bad |-> "start_failed"],
      [type |-> "SMMU_CREATE", from |-> {"enabled"}, root |-> TRUE,
       via |-> "direct", ok |-> "smmu_created", bad |-> "smmu_failed"],
      arm_smmuv2_cell_init,
      [type |-> "SMMU_DESTROY",
       from |-> {"smmu_created", "smmu_failed", "smmu_init_failed"},
       root |-> TRUE, via |-> "direct",
       ok |-> "smmu_destroyed", bad |-> "smmu_destroy_failed"],
      arm_cell_dcaches_flush }

CellOperation ==
    \E o \in CellOps :
        /\ hv_pc \in o.from
        /\ (hv_cfg.cell = "root" => o.root)
        /\ CellApplyFrom(o.type, o.ok, o.bad, o.via)

ArmsNext ==
    \/ HvNext
    \/ CellOperation

SpecArms == ArmsInit /\ [][ArmsNext]_vars

\* The collaborator calls of CREATE, LOAD, START, HV_CREATE and SMMU_CREATE, and
\* for a call the calls of the same operation.
FailFastCalls ==
    {"unmap_root", "map", "subpage", "load_map", "start_unmap", "hv_map", "smmu_map"}

Family(c) ==
    IF c \in {"unmap_root", "map", "subpage"} THEN {"unmap_root", "map", "subpage"}
    ELSE {c}

\* The first entry of the run of calls of one operation that ends at entry j.
RunStart(j) ==
    CHOOSE i \in 1 .. j :
        /\ \A m \in i .. j : hv_log[m].call \in Family(hv_log[j].call)
        /\ i = 1 \/ hv_log[i - 1].call \notin Family(hv_log[j].call)

\* What a successful call did is still there.
EffectInPlace(e) ==
    \A o \in PagesOf(0, e.size) :
        CASE e.call = "map" ->
                 Translate(hv_tbl[TblOf(hv_cfg.cell)], e.virt + o) = e.phys + o
          [] e.call = "load_map" -> Translate(hv_tbl.root, e.virt + o) = e.phys + o
          [] e.call = "start_unmap" -> Translate(hv_tbl.root, e.virt + o) = -1
          [] e.call = "hv_map" ->
                 Translate(hv_tbl.hv, e.virt + ROOT_MAP_OFFSET + o) = e.phys + o
          [] e.call = "smmu_map" -> Translate(hv_tbl.smmu, e.virt + o) = e.phys + o
          [] e.call = "unmap_root" ->
                 hv_cfg.cell = "root" \/ Translate(hv_tbl.root, e.phys + o) = -1
          [] OTHER -> TRUE

FailedCall(j) == ~hv_log[j].ok /\ hv_log[j].call \in FailFastCalls

\* C22: when a collaborator call fails while CREATE, LOAD, START, HV_CREATE or
\* SMMU_CREATE is applied to a fragment, the operation returns that error at
\* once: no call follows for a later fragment or a later region, and what the
\* earlier calls of the operation did is left in place.
C22_FailFast ==
    \A j \in 1 .. Len(hv_log) :
        FailedCall(j) =>
            /\ j = Len(hv_log)
            /\ hv_pc \notin {"smmu_destroy_failed", "smmu_init_failed"} =>
                  /\ hv_err = "ENOMEM"
                  /\ hv_pc \in {"init_failed", "load_failed", "start_failed",
                                "smmu_failed", "exit_failed"}
            /\ hv_pc = "smmu_init_failed" => hv_err = "EINVAL"
            /\ \A i \in RunStart(j) .. (j - 1) : EffectInPlace(hv_log[i])

\* the call for the second fragment of the second region failed, after the
\* first region and the first fragment had been mapped
C22_Witness ==
    /\ hv_log # << >>
    /\ FailedCall(Len(hv_log))
    /\ hv_log[Len(hv_log)].call \in {"load_map", "smmu_map"}
    /\ hv_log[Len(hv_log)].virt >= hv_cfg.regs[2].virt_start
    /\ Len(hv_log) - RunStart(Len(hv_log)) >= 2

\* The pages <<virt, phys>> of the fragments of every region of the cell, with
\* the virtual addresses moved by off.
FragPairs(off) ==
    UNION { LET fr == manage_colored_region_frags(hv_cfg.regs[n], hv_cfg.way,
                                                  hv_cfg.oob).frags
            IN  UNION { { <<fr[m].virt_start + off + o, fr[m].phys_start + o>>
                          : o \in PagesOf(0, fr[m].size) } : m \in 1 .. Len(fr) }
            : n \in 1 .. Len(hv_cfg.regs) }

\* The pages <<virt, phys>> CREATE maps into the cell: the fragments, those of
\* a communication region onto the cell's communication page.
CreatedPairs ==
    UNION { LET R  == hv_cfg.regs[n]
                fr == manage_colored_region_frags(R, hv_cfg.way, hv_cfg.oob).frags
            IN  UNION { { <<fr[m].virt_start + o,
                            (IF "COMM_REGION" \in R.flags THEN comm_page(hv_cfg.cell)
                             ELSE fr[m].phys_start) + o>>
                          : o \in PagesOf(0, fr[m].size) } : m \in 1 .. Len(fr) }
            : n \in 1 .. Len(hv_cfg.regs) }

\* The frames CREATE takes from the root cell: those of the fragments of the
\* regions that are neither communication regions nor root-shared.
StolenFrames ==
    UNION { LET R  == hv_cfg.regs[n]
                fr == manage_colored_region_frags(R, hv_cfg.way, hv_cfg.oob).frags
            IN  IF IsComm(R) THEN {}
                ELSE UNION { PagesOf(fr[m].phys_start, fr[m].size) : m \in 1 .. Len(fr) }
            : n \in 1 .. Len(hv_cfg.regs) }

\* The tables of a created cell before LOAD: the fragments are in the cell and
\* their frames are out of the root cell.
CellAfterCreate == hv_snap.tbl.cell \cup CreatedPairs

RootBeforeLoad == { pr \in hv_snap.tbl.root : pr[2] \notin StolenFrames }

LoadCalls(name) ==
    { [phys |-> hv_log[i].phys, virt |-> hv_log[i].virt, size |-> hv_log[i].size]
      : i \in { k \in 1 .. Len(hv_log) : hv_log[k].call = name } }

\* C23: for loadable regions LOAD installs in the root cell one mapping per
\* fragment at fragment virtual address + ROOT_MAP_OFFSET onto the fragment's
\* frames and START removes exactly those; after LOAD and START the root cell's
\* mapping is what it was before LOAD, and the cell's mapping never changes.
C23_LoaderRoundTrip ==
    hv_cfg.cell = "cell" =>
        /\ hv_pc = "loaded" =>
              /\ hv_tbl.root = RootBeforeLoad \cup FragPairs(ROOT_MAP_OFFSET)
              /\ hv_tbl.cell = CellAfterCreate
        /\ (hv_pc = "started" /\ LoadCalls("load_map") # {}) =>
              /\ LoadCalls("start_unmap") = LoadCalls("load_map")
              /\ hv_tbl.root = RootBeforeLoad
              /\ hv_tbl.cell = CellAfterCreate

\* The pages <<virt, phys>> LOAD maps into the root cell: the fragments moved
\* by ROOT_MAP_OFFSET, those of a communication region onto the root cell's
\* communication page.
LoadedPairs ==
    UNION { LET R  == hv_cfg.regs[n]
                fr == manage_colored_region_frags(R, hv_cfg.way, hv_cfg.oob).frags
            IN  UNION { { <<fr[m].virt_start + ROOT_MAP_OFFSET + o,
                            (IF "COMM_REGION" \in R.flags THEN comm_page("root")
                             ELSE fr[m].phys_start) + o>>
                          : o \in PagesOf(0, fr[m].size) } : m \in 1 .. Len(fr) }
            : n \in 1 .. Len(hv_cfg.regs) }

\* The root cell's table after CREATE of the root cell's own colored regions.
RootAfterOwnCreate ==
    coloring_cell_create("root", hv_snap.tbl, << >>, hv_cfg,
                         [reg |-> 0, call |-> 0]).tbl.root

\* All flushes logged so far.  arm_cell_dcaches_flush flushes the memory
\* regions of the configuration first: RegionSlices of them, one per slice.
AllFlushes == SelectSeq(hv_log, LAMBDA e : e.call = "flush")

RegionSlices ==
    LET regs == mem_regions(hv_cfg)
        Slices(R) == (R.size \div PAGE_SIZE + hv_cfg.ntp - 1) \div hv_cfg.ntp
        RECURSIVE Sum(_)
        Sum(n) == IF n > Len(regs) THEN 0 ELSE Slices(regs[n]) + Sum(n + 1)
    IN  Sum(1)

\* The flushes of the DCACHE operation, and the frames they cover, in the order
\* flushed.
Flushes == SubSeq(AllFlushes, RegionSlices + 1, Len(AllFlushes))

RECURSIVE FlushedFrom(_)
FlushedFrom(n) ==
    IF n > Len(Flushes) THEN << >>
    ELSE [ k \in 1 .. (Flushes[n].size \div PAGE_SIZE)
             |-> Flushes[n].phys + (k - 1) * PAGE_SIZE ] \o FlushedFrom(n + 1)

Flushed == FlushedFrom(1)

\* C24: DCACHE maps every fragment at the scratch address in consecutive slices
\* of at most NUM_TEMPORARY_PAGES pages and flushes each; every physical page of
\* every fragment is flushed exactly once, in ascending order; neither the
\* cell's nor the root cell's mapping changes, and the operation returns success.
C24_DcacheSlices ==
    /\ hv_pc # "flush_failed"
    /\ hv_pc = "flushed" =>
          /\ hv_err = "0"
          /\ \A n \in 1 .. Len(Flushes) :
                /\ Flushes[n].size <= hv_cfg.ntp * PAGE_SIZE
                /\ Flushes[n].virt = TEMPORARY_MAPPING_BASE
          /\ { Flushed[k] : k \in 1 .. Len(Flushed) } = { q[2] : q \in FragPairs(0) }
          /\ \A a, b \in 1 .. Len(Flushed) : a < b => Flushed[a] < Flushed[b]
          /\ hv_cfg.cell = "cell" =>
                /\ hv_tbl.cell = CellAfterCreate
                /\ hv_tbl.root \in { RootBeforeLoad, RootBeforeLoad \cup LoadedPairs }
          /\ hv_cfg.cell = "root" =>
                /\ hv_tbl.cell = hv_snap.tbl.cell
                /\ hv_tbl.root = RootAfterOwnCreate

\* a fragment longer than a slice was flushed in several slices
C24_Witness ==
    /\ hv_pc = "flushed"
    /\ hv_cfg.ntp > 1
    /\ \E n \in 1 .. (Len(Flushes) - 1) :
          /\ Flushes[n].size = hv_cfg.ntp * PAGE_SIZE
          /\ Flushes[n + 1].phys = Flushes[n].phys + Flushes[n].size
    /\ Len(Flushes) >= 4

\* The root cell has been recolored and enabled, or un-colored and shut down.
RootSettled == hv_cfg.cell = "root" /\ hv_pc \in {"enabled", "exited"}

\* The hypervisor's colored view of region R: the addresses
\* [R.virt_start + ROOT_MAP_OFFSET, R.virt_start + ROOT_MAP_OFFSET + R.size).
ColoredView(R) == PagesOf(R.virt_start + ROOT_MAP_OFFSET, R.size)

\* C25: HV_DESTROY removes exactly the mappings HV_CREATE installed, so after a
\* successful recoloring at enable and a successful un-coloring at shutdown the
\* hypervisor's address space has no mapping in the colored view of any root
\* colored region.
C25_HvViewReleased ==
    RootSettled =>
        /\ LoadCalls("hv_unmap") = LoadCalls("hv_map")
        /\ \A n \in 1 .. Len(hv_cfg.regs) :
              \A pr \in hv_tbl.hv : pr[1] \notin ColoredView(hv_cfg.regs[n])
        /\ \A pr \in hv_tbl.hv :
              pr \in hv_snap.tbl.hv
                  \/ pr[1] \in PagesOf(TEMPORARY_MAPPING_BASE, hv_cfg.ntp * PAGE_SIZE)

\* the root cell was enabled and shut down; both times the colored view of a
\* region of several fragments was installed and released
C25_Witness ==
    /\ hv_cfg.cell = "root" /\ hv_pc = "exited"
    /\ Cardinality(LoadCalls("hv_map")) >= 3
    /\ Cardinality({ i \in 1 .. Len(hv_log) : hv_log[i].call = "hv_unmap" }) >= 6
    /\ \E i \in 1 .. Len(hv_log) : hv_log[i].call = "uncopy"

\* The colored region a logged call belongs to: the last one that starts at or
\* below the call's guest address.
RegionOf(e) ==
    LET v == IF e.virt >= ROOT_MAP_OFFSET /\ e.call \in {"load_map", "start_unmap"}
             THEN e.virt - ROOT_MAP_OFFSET ELSE e.virt
    IN  Cardinality({ n \in 1 .. Len(hv_cfg.regs) : hv_cfg.regs[n].virt_start <= v })

\* The first DESTROY call of the log (one past its end when there is none):
\* the entries from it on were made at shutdown.
ShutdownStart ==
    LET D == { i \in 1 .. Len(hv_log) : hv_log[i].call \in {"unmap", "remap_root"} }
    IN  IF D = {} THEN Len(hv_log) + 1 ELSE CHOOSE i \in D : \A k \in D : i <= k

\* The place of entry j in the order the claim gives, N being the number of
\* regions and d the start of shutdown: 3(n-1)+1..3 for HV_CREATE, copy,
\* HV_DESTROY of region n at enable, 3N+1 for CREATE, 3N+2 for DESTROY, then
\* 3N+2+3(n-1)+1..3 at shutdown.
StepOf(j, d) ==
    LET e == hv_log[j]
        N == Len(hv_cfg.regs)
        k == CASE e.call = "hv_map" -> 1
               [] e.call \in {"copy", "uncopy"} -> 2
               [] e.call = "hv_unmap" -> 3
               [] OTHER -> 0
    IN  CASE e.call \in {"unmap_root", "map", "subpage"} -> 3 * N + 1
          [] e.call \in {"unmap", "remap_root"} -> 3 * N + 2
          [] e.call = "copy" /\ j >= d -> -1
          [] e.call = "uncopy" /\ j < d -> -1
          [] OTHER -> (IF j >= d THEN 3 * N + 2 ELSE 0)
                          + 3 * (RegionOf(e) - 1) + k

Steps == LET d == ShutdownStart IN [ j \in 1 .. Len(hv_log) |-> StepOf(j, d) ]

\* C26: for the root cell, enable does HV_CREATE, the copy and HV_DESTROY for each
\* colored region in declaration order and starts CREATE only after every
\* region has been recolored; shutdown does DESTROY first and then, per
\* region, HV_CREATE, the un-copy and HV_DESTROY.
C26_RootOrdering ==
    hv_cfg.cell = "root" =>
        LET st == Steps
            logged == { st[j] : j \in 1 .. Len(st) }
            N == Len(hv_cfg.regs)
        IN  /\ \A j \in 1 .. Len(st) : st[j] >= 1
            /\ \A j \in 1 .. (Len(st) - 1) : st[j] <= st[j + 1]
            /\ \A s \in logged : \A t \in 1 .. (s - 1) : t \in logged
            /\ Len(st) > 0 => st[1] = 1

\* a root cell with two regions went through enable and shutdown
C26_Witness ==
    /\ hv_cfg.cell = "root" /\ hv_pc = "exited"
    /\ Len(hv_cfg.regs) = 2
    /\ { Steps[j] : j \in 1 .. Len(hv_log) } = 1 .. 14

\* SMMU_CREATE was applied and every one of its calls succeeded.
SmmuCreated ==
    /\ hv_cfg.smmu_map_f
    /\ \E i \in 1 .. Len(hv_log) : hv_log[i].call = "smmu_map"
    /\ \A i \in 1 .. Len(hv_log) : hv_log[i].call = "smmu_map" => hv_log[i].ok

\* The SMMU table before SMMU_CREATE: what arm_smmuv2_cell_init mapped of the
\* memory regions, if it was the caller.
SmmuBefore ==
    hv_snap.tbl.smmu
        \cup UNION { { <<hv_log[i].virt + o, hv_log[i].phys + o>>
                       : o \in PagesOf(0, hv_log[i].size) }
                     : i \in { k \in 1 .. Len(hv_log) :
                                 hv_log[k].call = "smmu_map_region" /\ hv_log[k].ok } }

\* C27: SMMU_DESTROY applied to a region whose fragments SMMU_CREATE inserted
\* succeeds and leaves the SMMU table as it was before SMMU_CREATE; without the
\* hook installed SMMU_CREATE and SMMU_DESTROY fail with not-supported and
\* change nothing.
C27_SmmuMirror ==
    /\ (hv_pc \in {"smmu_destroyed", "smmu_destroy_failed"} /\ SmmuCreated)
          => /\ hv_pc = "smmu_destroyed"
             /\ hv_err = "0"
             /\ hv_tbl.smmu = SmmuBefore
    /\ (hv_pc \in {"smmu_created", "smmu_failed", "smmu_destroyed",
                   "smmu_destroy_failed"} /\ ~hv_cfg.smmu_map_f)
          => /\ hv_pc \in {"smmu_failed", "smmu_destroy_failed"}
             /\ hv_err = "ENOSYS"
             /\ hv_tbl.smmu = SmmuBefore

\* C28: for every colored region with size > 0 the fragment planner ends after
\* finitely many fragments, also when the region's colors has no bit set below
\* color_count.
C28_PlannerTerminates ==
    pl_pc = "done" =>
        \A n \in 1 .. Len(pl_regs) :
            pl_regs[n].size > 0 => ~pl_frags[n].diverged

(***************************************************************************)
(* The driver's validator followed by the hypervisor's planner (SpecAgree):*)
(* the cell configuration the driver accepted is what the hypervisor       *)
(* walks through with __manage_colored_region.                             *)
(***************************************************************************)
IsColoredCell(R) == "COLORED_CELL" \in R.flags

\* The hypervisor plans every colored region of the configuration that
\* jailhouse_coloring_cell_setup accepted and copied to the descriptor.
PlanAccepted ==
    /\ drv_pc = "done"
    /\ drv_ret = "0"
    /\ drv_in.id # 0
    /\ pl_pc = "idle"
    /\ pl_way' = drv_in.way
    /\ pl_oob' \in BOOLEAN
    /\ pl_regs' = SelectSeq(drv_desc, IsColoredCell)
    /\ pl_frags' = [ n \in 1 .. Len(pl_regs') |->
                       manage_colored_region_frags(pl_regs'[n], pl_way', pl_oob') ]
    /\ pl_pc' = "done"
    /\ UNCHANGED <<ncVars, hvVars, drvVars, rgVars>>

AgreeNext ==
    \/ DrvNext
    \/ PlanAccepted

SpecAgree == DrvInit /\ [][AgreeNext]_vars

\* C29: every fragment the planner emits for a managed region the driver
\* accepted (phys_start set to the pool base, simulated end within the pool)
\* lies inside [pool.phys_start, pool.phys_start + pool.size).
C29_ValidatorPlannerBounds ==
    (pl_pc = "done" /\ drv_root # << >>) =>
        \A n \in 1 .. Len(pl_regs) :
            pl_regs[n].phys_start = drv_root[1].phys_start =>
                \A m \in 1 .. Len(pl_frags[n].frags) :
                    LET frag == pl_frags[n].frags[m]
                    IN  /\ frag.phys_start >= drv_root[1].phys_start
                        /\ frag.phys_start + frag.size
                              <= drv_root[1].phys_start + drv_root[1].size

\* C30: when jailhouse_coloring_cell_setup returns an error for a non-root cell,
\* the cell's memory regions and the descriptor's memory regions are as they
\* were before the call; no managed region has had its phys_start filled in.
C30_FailureLeavesConfig ==
    (drv_pc = "done" /\ drv_in.id # 0 /\ drv_ret # "0") =>
        /\ drv_regs = drv_in.regs
        /\ drv_desc = drv_in.regs

====
